---- MODULE Spec2Model ----
(***************************************************************************)
(* A model of the carplay-service bridge: the hotplug monitor and its      *)
(* connection state (link/hotplug.go, StateManager), the service's connect *)
(* and disconnect callbacks (cmd/server/main.go), the link layer's         *)
(* handshake, heartbeat and Close, the serialized OUT-endpoint writes      *)
(* (SendMessage) and the latest-wins H.264 buffer.                         *)
(*                                                                         *)
(* Three specifications share the module:                                  *)
(*   Spec       the running service: poller, TriggerConnectionAttempt,     *)
(*              connect/disconnect callback tasks, handshake tasks,        *)
(*              heartbeat tasks and Close, interleaved at the granularity  *)
(*              of their accesses to shared variables;                     *)
(*   SpecLink   one session's senders (handshake, heartbeat, a helper, the *)
(*              Plugged handler) at the granularity of endpoint writes;    *)
(*   SpecVideo  the H.264 buffer: the dispatch loop's insertion, the       *)
(*              transcoder-writer consumers and the detach drain.          *)
(***************************************************************************)
EXTENDS Integers, Sequences, FiniteSets, TLC

\* ------------------------------------------------------------------ bounds

\* How many times the environment plugs or unplugs the dongle.
MaxPlugs == 2

\* How many VideoData messages the dongle sends.
MaxFrames == 4

\* How many writeH264ToFFmpeg tasks exist (startFFmpegConverter starts one per
\* connection and none of them ever ends).
MaxConsumers == 2

\* The longest H.264 payload of a VideoData body, in bytes.
MaxPayload == 2

\* The largest value of a payload byte.
MaxByte == 1

\* How many sessions (attach, then detach) follow one another.
MaxSessions == 2

\* The largest retry budget a direct call of ConnectWithTimeout is given.
MaxRetries == 3

\* How many tasks call SetState at a time, how many SetState calls are made,
\* and how many listeners are subscribed, in all.
MaxSetters == 2
MaxSetStates == 3
MaxListeners == 2

\* How many calls of Start and Stop the HotplugManager's owner makes.
MaxHotplugCalls == 4

\* How many attach and detach events the pollers handle.
MaxHotplugEvents == 3

\* ConnectionState (StateDisconnected, StateConnecting, StateConnected)
StateDisconnected == "Disconnected"
StateConnecting == "Connecting"
StateConnected == "Connected"
ConnectionState == {StateDisconnected, StateConnecting, StateConnected}

\* The two callers of handleAttach: the poller task and main's one-shot
\* TriggerConnectionAttempt.
Handlers == {"poller", "trigger"}

\* Callback tasks. One connect task per handled attach, one disconnect task
\* per handled detach; the bounds follow from MaxPlugs.
MaxConn == 2 + (MaxPlugs \div 2)
MaxDisc == 1 + (MaxPlugs \div 2)
ConnIds == 1 .. MaxConn
DiscIds == 1 .. MaxDisc

VARIABLES
  \* --- environment
  present,        \* a known dongle is enumerated on the bus
  plugs,          \* plug/unplug events so far
  \* --- StateManager
  state,
  \* --- HotplugManager
  hpc,            \* position of each handleAttach/handleDetach caller
  wasConnected,   \* monitorDevices' local
  \* --- callback tasks
  conn,           \* connect callback tasks (handleConnection + SetState)
  disc,           \* disconnect callback tasks (handleDisconnection + SetState)
  hs,             \* StartWithConfig tasks started by handleConnection
  \* --- link package globals
  epOpen,         \* epIn / epOut are non-nil
  doneFn,         \* Done (the transport's cleanup) is non-nil
  connMutex,      \* holder of connectionMutex, 0 when free
  heartbeatTicker,\* heartbeatTicker is non-nil
  hbTasks,        \* running heartbeat goroutines
  currentConfig,  \* currentConfig is non-nil
  dongleReady,
  \* --- observation (history) variables
  connCalls,      \* connect callbacks invoked
  attachEdges,    \* absent->present changes of the bus (a dongle present at start counts)
  settled,        \* a detach task has stored Disconnected while no attach edge was
                  \* being handled, and no attach edge was seen since
  ignored,        \* the kinds of edge a handler has ignored so far ("attach", "detach")
  replug          \* an unplug-then-replug cycle after a connection attempt:
                  \* "none", "pulled" (the dongle was removed), "detached" (the
                  \* poller detected the detach edge), "plugged" (on the bus
                  \* again, the detach having been handled to its end), "seen"
                  \* (the poller detected the attach edge), "handled" (a connect
                  \* callback was started)

\* --- one session's senders (SpecLink)
VARIABLES
  epOut,          \* epOut is non-nil
  config,         \* the DongleConfig StartWithConfig was given (currentConfig points to it)
  configStored,   \* currentConfig is non-nil
  hsPos,          \* StartWithConfig's position
  hsAndroid,      \* what StartWithConfig read from config.AndroidWorkMode
  hsResult,       \* "running", or what StartWithConfig returned: "nil" or "err"
  spc,            \* each sender's position inside SendData / SendMessage
  writeMutex,     \* holder of writeMutex, "none" when free
  inFlight,       \* senders with a write in flight on the OUT endpoint
  pendingBody,    \* the sender whose header is written and whose body is not yet
  torn,           \* a write of another message came between a header and its body
  sent,           \* the messages StartWithConfig has passed to SendData, in order
  androidFiles,   \* per sender, the SendFile(/etc/android_work_mode) messages whose
                  \* SendData returned nil
  wsend           \* per sender, the record of its current or last call of SendData

lnkVars == <<epOut, config, configStored, hsPos, hsAndroid, hsResult, spc, writeMutex,
             inFlight, pendingBody, torn, sent, androidFiles, wsend>>

\* --- the H.264 buffer (SpecVideo)
VARIABLES
  h264Frames,     \* the buffered channel's queue, oldest first
  vpc,            \* the dispatch loop's position in the VideoData case
  data,           \* data.Data of the VideoData being handled (a frame number)
  received,       \* VideoData messages received so far
  cpc,            \* each writeH264ToFFmpeg task's position
  dpc,            \* handleDisconnection's position in its drain loop
  latest,         \* the frame inserted last
  inserted,       \* frames inserted since the last read
  lastRead,       \* what the last read saw
  dropped         \* an insertion took the drop branch

vidVars == <<h264Frames, vpc, data, received, cpc, dpc, latest, inserted, lastRead,
             dropped>>

svcVars == <<present, plugs, state, hpc, wasConnected, conn, disc, hs,
             epOpen, doneFn, connMutex, heartbeatTicker, hbTasks, currentConfig,
             dongleReady, connCalls, attachEdges, settled, ignored, replug>>

\* --- one session's lifecycle (SpecSession)
VARIABLES
  \* --- handleConnection and the transport (ConnectWithTimeout)
  tpc,            \* handleConnection's position
  cleanTask,      \* ConnectWithTimeout's cleanTask: what it has acquired, in order
  closeTask,      \* the list captured by the cleanup closure it returned
  freed,          \* the resources released so far, in the order of their release
  \* --- package link globals
  epIn,           \* epIn / epOut are non-nil
  Done,           \* Done is non-nil
  cancelCtx,      \* cancelCtx is non-nil
  ctxErr,         \* ctx has been cancelled (ctx.Err() != nil, ctx.Done() is closed)
  commDoneChan,   \* "nil" or "open"
  connectionMutex,\* holder of connectionMutex, "none" when free
  sessionConfig,  \* currentConfig is non-nil
  ticker,         \* heartbeatTicker: "nil", "running", or "stopped" (non-nil, Stop called)
  heartbeatDone,  \* heartbeatDone is non-nil
  \* --- Communicate
  lpc,            \* the dispatch loop's position
  recvs,          \* messages and I/O errors delivered so far
  recvErr,        \* the error of the last failed ReceiveMessage
  errCalls,       \* calls of onError
  loopResult,     \* what Communicate returned
  \* --- StartWithConfig and the heartbeat goroutine
  hspc,           \* StartWithConfig's position
  hbpc,           \* the heartbeat goroutine's position
  ticks,          \* ticks of heartbeatTicker so far
  \* --- Close
  clo,            \* each Close caller's position
  \* --- observation (history) variables
  entered,        \* per Close caller: "no", or how it found the link when it took
                  \* connectionMutex: "closed" (nothing open, no link task running)
                  \* or "open"
  doneCalls,      \* calls of the transport's cleanup closure by Close
  lateWrite,      \* a Heartbeat write was issued after the transport's release
  commNil,        \* Communicate was called while epIn was nil
  sendNil         \* what the SendData calls made while epOut was nil have done:
                  \* "none", "NotConnected" (returned the error), or "write"
                  \* (went on to SendMessage)

sesVars == <<tpc, cleanTask, closeTask, freed, epIn, Done, cancelCtx, ctxErr,
             commDoneChan, connectionMutex, sessionConfig, ticker, heartbeatDone,
             lpc, recvs, recvErr, errCalls, loopResult, hspc, hbpc, ticks, clo,
             entered, doneCalls, lateWrite, commNil, sendNil>>

\* --- the decoding of one VideoData (SpecCodec)
VARIABLES
  cdpc,           \* where the message is: "received", "decoded", "failed",
                  \* "skipped", "queued", "consumed"
  rxBuf,          \* the receive buffer: the body bytes, until it is reused
  owned,          \* the bytes of the slice Unmarshal allocated
  payload,        \* the decoded VideoData: Length and the slice Data
  frameRef,       \* the slice sent to h264Frames
  consumed,       \* the bytes the consumer read from the slice it received
  \* --- observation (history) variables
  body,           \* the body as it was when it was decoded
  reused          \* the receive buffer has been reused by a later transfer

cdcVars == <<cdpc, rxBuf, owned, payload, frameRef, consumed, body, reused>>

\* --- dispatch loops across sessions (SpecLoops)
VARIABLES
  gEpIn,          \* the global epIn: 0 for nil, else the session whose endpoint it is
  gCtx,           \* the global ctx: 0 before the first session, else its session
  gCancelCtx,     \* the global cancelCtx is non-nil
  cancelledCtx,      \* the sessions whose context has been cancelledCtx
  gCommDoneChan,  \* the global commDoneChan: 0 for nil, else its session
  closedChans,    \* the sessions whose commDoneChan has been closed
  cur,            \* sessions opened so far
  phase,          \* where the attach/detach sequence is
  mpc,            \* each session's dispatch loop: its position
  reading,        \* per loop: the endpoint its pending ReceiveMessage was given
  ctxArg,         \* per loop: the context its pending ReceiveMessage was given
  mrecvs,         \* messages and I/O errors delivered so far
  writers         \* the writeH264ToFFmpeg tasks that are running

mlsVars == <<gEpIn, gCtx, gCancelCtx, cancelledCtx, gCommDoneChan, closedChans, cur,
             phase, mpc, reading, ctxArg, mrecvs, writers>>

\* --- the frame codec (SpecProtocol)
VARIABLES
  ppc,            \* where the frame is
  pkind,          \* the payload kind Marshal was given, "none" for inbound frames
  pbody,          \* the length of its packed payload
  wire,           \* the 16 header bytes
  hdr,            \* the Header Unmarshal filled in
  perr,           \* the error Unmarshal returned for the header, "nil" for none
  chosen,         \* the payload kind GetPayloadByHeader returned
  abody,          \* the body of an AudioData frame
  audioData,      \* the AudioData Unmarshal filled in
  trailer,        \* the payload handed to SendData: its packed Type and skipped field
  unpacked        \* the skipped field Unmarshal filled in from the frame's body

proVars == <<ppc, pkind, pbody, wire, hdr, perr, chosen, abody, audioData, trailer,
             unpacked>>

\* --- the transport's retry loop (SpecConnect)
VARIABLES
  cnpc,           \* ConnectWithTimeout's position
  connectCaller,  \* who called it
  maxRetries,     \* its maxRetries argument
  waitCount,      \* its waitCount
  passes,         \* passes over KnownDevices begun so far
  sleeps,         \* retry delays slept so far
  outcome,        \* per table entry: what OpenDeviceWithVIDPID returns in this pass
  tableIdx,       \* the position of the range over KnownDevices
  openedEntry     \* the table entry whose device was opened, 0 for none

conVars == <<cnpc, connectCaller, maxRetries, waitCount, passes, sleeps, outcome,
             tableIdx, openedEntry>>

\* --- the StateManager and its listeners (SpecObservers)
VARIABLES
  smState,        \* sm.state
  smListeners,    \* sm.listeners: a slice
  arrays,         \* the backing arrays of the listener slices made so far
  chanCount,      \* channels made by Subscribe so far
  closedCh,       \* the channels that were closed
  delivered,      \* per channel: the notifications sent into it, in order
  changeCount,    \* SetState calls so far that changed the state
  setCalls,       \* SetState calls so far
  stpc,           \* per SetState caller: its position
  snapshot,       \* per SetState caller: its local `listeners`
  rangeIdx,       \* per SetState caller: the position of its range
  notifying,      \* per SetState caller: the state it sends, and which change it is
  smPanic         \* a send on a closed channel has panicked

obsVars == <<smState, smListeners, arrays, chanCount, closedCh, delivered,
             changeCount, setCalls, stpc, snapshot, rangeIdx, notifying, smPanic>>

\* --- the HotplugManager's Start and Stop (SpecHotplug)
VARIABLES
  hmCtx,          \* hm.ctx is non-nil
  stopClosed,     \* hm.stopChan is closed
  doneClosed,     \* hm.doneChan is closed
  pollPc,         \* the latest monitorDevices task's position, "none" before Start
  pollWas,        \* its wasConnected
  stopPc,         \* the caller of Start and Stop: "idle", or "wait" inside Stop
  hmCalls,        \* calls of Start and Stop so far
  hmEvents,       \* attach and detach events the pollers have handled so far
  hmPanic         \* a close of a closed channel has panicked

hotVars == <<hmCtx, stopClosed, doneClosed, pollPc, pollWas, stopPc, hmCalls, hmEvents,
             hmPanic>>

\* What the service's actions leave alone.
nonSvcVars == <<lnkVars, vidVars, sesVars, cdcVars, mlsVars, proVars, conVars, obsVars,
                hotVars>>

\* What the link's, the video buffer's, the session's and the codec's actions
\* leave alone.
nonLnkVars == <<svcVars, vidVars, sesVars, cdcVars, mlsVars, proVars, conVars, obsVars,
                hotVars>>
nonVidVars == <<svcVars, lnkVars, sesVars, cdcVars, mlsVars, proVars, conVars, obsVars,
                hotVars>>
nonSesVars == <<svcVars, lnkVars, vidVars, cdcVars, mlsVars, proVars, conVars, obsVars,
                hotVars>>
nonCdcVars == <<svcVars, lnkVars, vidVars, sesVars, mlsVars, proVars, conVars, obsVars,
                hotVars>>
nonMlsVars == <<svcVars, lnkVars, vidVars, sesVars, cdcVars, proVars, conVars, obsVars,
                hotVars>>
nonProVars == <<svcVars, lnkVars, vidVars, sesVars, cdcVars, mlsVars, conVars, obsVars,
                hotVars>>
nonConVars == <<svcVars, lnkVars, vidVars, sesVars, cdcVars, mlsVars, proVars, obsVars,
                hotVars>>
nonObsVars == <<svcVars, lnkVars, vidVars, sesVars, cdcVars, mlsVars, proVars, conVars,
                hotVars>>
nonHotVars == <<svcVars, lnkVars, vidVars, sesVars, cdcVars, mlsVars, proVars, conVars,
                obsVars>>

vars == <<svcVars, lnkVars, vidVars, sesVars, cdcVars, mlsVars, proVars, conVars,
          obsVars, hotVars>>

\* ------------------------------------------------------------ StateManager

\* StateManager.SetState: store the new state (observers are notified after
\* the lock is released; they do not feed back into the state).
SetState(newState) == state' = newState

\* ---------------------------------------------------------- the environment

\* The dongle is plugged in.
Plug ==
  /\ ~present
  /\ plugs < MaxPlugs
  /\ present' = TRUE
  /\ plugs' = plugs + 1
  /\ attachEdges' = attachEdges + 1
  /\ replug' = IF /\ replug = "detached"
                  /\ hpc["poller"] = "wait"
                  /\ \A j \in DiscIds : disc[j] = "free"
                 THEN "plugged" ELSE "none"
  /\ UNCHANGED <<state, hpc, wasConnected, conn, disc, hs, epOpen, doneFn, connMutex,
                 heartbeatTicker, hbTasks, currentConfig, dongleReady, connCalls,
                 settled, ignored, nonSvcVars>>

\* The dongle is pulled.
Unplug ==
  /\ present
  /\ plugs < MaxPlugs
  /\ present' = FALSE
  /\ plugs' = plugs + 1
  /\ replug' = IF connCalls >= 1 THEN "pulled" ELSE "none"
  /\ UNCHANGED <<state, hpc, wasConnected, conn, disc, hs, epOpen, doneFn, connMutex,
                 heartbeatTicker, hbTasks, currentConfig, dongleReady, connCalls,
                 attachEdges, settled, ignored, nonSvcVars>>

\* --------------------------------------------------------- HotplugManager

\* isDevicePresent: the open-and-close probe of the known VID/PID table.
isDevicePresent == present

\* The smallest unused task slot.
FreeSlot(tasks) == CHOOSE i \in DOMAIN tasks :
                     /\ tasks[i] = "free"
                     /\ \A k \in DOMAIN tasks : tasks[k] = "free" => i <= k

\* A handler returns to its caller: the poller stores the enumeration it saw
\* in wasConnected and waits for the next tick; TriggerConnectionAttempt ends.
HandlerReturn(p, isConnected) ==
  /\ hpc' = [hpc EXCEPT ![p] = IF p = "poller" THEN "wait" ELSE "done"]
  /\ wasConnected' = IF p = "poller" THEN isConnected ELSE wasConnected

\* monitorDevices, one tick: probe the bus and detect an edge.
PollerTick ==
  /\ hpc["poller"] = "wait"
  /\ LET isConnected == isDevicePresent IN
       IF isConnected /\ ~wasConnected
         THEN /\ hpc' = [hpc EXCEPT !["poller"] = "attach"]
              /\ settled' = FALSE
              /\ replug' = IF replug = "plugged" THEN "seen" ELSE replug
              /\ UNCHANGED wasConnected
         ELSE IF ~isConnected /\ wasConnected
           THEN /\ hpc' = [hpc EXCEPT !["poller"] = "detach"]
                /\ replug' = IF replug = "pulled" THEN "detached" ELSE replug
                /\ UNCHANGED <<settled, wasConnected>>
           ELSE /\ wasConnected' = isConnected
                /\ UNCHANGED <<hpc, settled, replug>>
  /\ UNCHANGED <<present, plugs, state, conn, disc, hs, epOpen, doneFn, connMutex,
                 heartbeatTicker, hbTasks, currentConfig, dongleReady, connCalls,
                 attachEdges, ignored, nonSvcVars>>

\* TriggerConnectionAttempt: main's one-shot probe after Start.
TriggerConnectionAttempt ==
  /\ hpc["trigger"] = "probe"
  /\ IF isDevicePresent
       THEN /\ hpc' = [hpc EXCEPT !["trigger"] = "attach"]
            /\ settled' = FALSE
       ELSE /\ hpc' = [hpc EXCEPT !["trigger"] = "done"]
            /\ UNCHANGED settled
  /\ UNCHANGED <<present, plugs, state, wasConnected, conn, disc, hs, epOpen, doneFn,
                 connMutex, heartbeatTicker, hbTasks, currentConfig, dongleReady,
                 connCalls, attachEdges, ignored, replug, nonSvcVars>>

\* handleAttach's test: an attach is ignored unless the state read is
\* Disconnected.
AttachIgnored_OnlyConnected(currentState) == currentState = StateConnected

AttachIgnored(currentState) == currentState # StateDisconnected

\* handleDetach's test: a detach is ignored when the state read is Disconnected.
DetachIgnored(currentState) == currentState = StateDisconnected

\* handleAttach, first half: GetState and the comparison with Disconnected.
HandleAttachCheck(p) ==
  /\ hpc[p] = "attach"
  /\ IF AttachIgnored(state)
       THEN /\ HandlerReturn(p, TRUE)
            /\ ignored' = ignored \cup {"attach"}
       ELSE /\ hpc' = [hpc EXCEPT ![p] = "attachSet"]
            /\ UNCHANGED <<wasConnected, ignored>>
  /\ UNCHANGED <<present, plugs, state, conn, disc, hs, epOpen, doneFn, connMutex,
                 heartbeatTicker, hbTasks, currentConfig, dongleReady, connCalls,
                 attachEdges, settled, replug, nonSvcVars>>

\* handleAttach, second half: SetState(Connecting), then the connect callback
\* is started on a task of its own.
HandleAttachStart(p) ==
  /\ hpc[p] = "attachSet"
  /\ SetState(StateConnecting)
  /\ conn' = [conn EXCEPT ![FreeSlot(conn)] = "open"]
  /\ connCalls' = connCalls + 1
  /\ replug' = IF replug \in {"plugged", "seen"} THEN "handled" ELSE replug
  /\ HandlerReturn(p, TRUE)
  /\ UNCHANGED <<present, plugs, disc, hs, epOpen, doneFn, connMutex, heartbeatTicker,
                 hbTasks, currentConfig, dongleReady, attachEdges, settled, ignored,
                 nonSvcVars>>

\* handleDetach: GetState; unless Disconnected, the disconnect callback is
\* started on a task of its own.
HandleDetach ==
  /\ hpc["poller"] = "detach"
  /\ IF DetachIgnored(state)
       THEN /\ ignored' = ignored \cup {"detach"}
            /\ UNCHANGED disc
       ELSE /\ disc' = [disc EXCEPT ![FreeSlot(disc)] = "close"]
            /\ UNCHANGED ignored
  /\ HandlerReturn("poller", FALSE)
  /\ UNCHANGED <<present, plugs, state, conn, hs, epOpen, doneFn, connMutex,
                 heartbeatTicker, hbTasks, currentConfig, dongleReady, connCalls,
                 attachEdges, settled, replug, nonSvcVars>>

\* ------------------------------------------------- the connect callback

\* handleConnection: link.ConnectOnce. One enumeration pass, no retry: it
\* fails when no dongle is enumerated, and may fail on a present one (the
\* interface claim or an endpoint lookup).
ConnOpen(i) ==
  /\ conn[i] = "open"
  /\ \E ok \in BOOLEAN :
       conn' = [conn EXCEPT ![i] = IF ok /\ present THEN "init" ELSE "retErr"]
  /\ UNCHANGED <<present, plugs, state, hpc, wasConnected, disc, hs, epOpen, doneFn,
                 connMutex, heartbeatTicker, hbTasks, currentConfig, dongleReady,
                 connCalls, attachEdges, settled, ignored, replug, nonSvcVars>>

\* handleConnection: link.InitWithEndpoints, under connectionMutex.
ConnInit(i) ==
  /\ conn[i] = "init"
  /\ connMutex = 0
  /\ epOpen' = TRUE
  /\ doneFn' = TRUE
  /\ conn' = [conn EXCEPT ![i] = "start"]
  /\ UNCHANGED <<present, plugs, state, hpc, wasConnected, disc, hs, connMutex,
                 heartbeatTicker, hbTasks, currentConfig, dongleReady, connCalls,
                 attachEdges, settled, ignored, replug, nonSvcVars>>

\* handleConnection: go link.StartWithConfig(config), then
\* startFFmpegConverter, whose failure makes handleConnection return the error.
ConnStart(i) ==
  /\ conn[i] = "start"
  /\ hs' = [hs EXCEPT ![i] = "config"]
  /\ \E ffmpegOk \in BOOLEAN :
       conn' = [conn EXCEPT ![i] = IF ffmpegOk THEN "warm" ELSE "retErr"]
  /\ UNCHANGED <<present, plugs, state, hpc, wasConnected, disc, epOpen, doneFn,
                 connMutex, heartbeatTicker, hbTasks, currentConfig, dongleReady,
                 connCalls, attachEdges, settled, ignored, replug, nonSvcVars>>

\* handleConnection: the 200 ms warm-up, dongleReady = true, return nil.
ConnReady(i) ==
  /\ conn[i] = "warm"
  /\ dongleReady' = TRUE
  /\ conn' = [conn EXCEPT ![i] = "retOk"]
  /\ UNCHANGED <<present, plugs, state, hpc, wasConnected, disc, hs, epOpen, doneFn,
                 connMutex, heartbeatTicker, hbTasks, currentConfig, connCalls,
                 attachEdges, settled, ignored, replug, nonSvcVars>>

\* The state handleAttach's task stores once onConnect has returned.
ConnectOutcome_ErrorKeepsConnecting(returned) ==
  IF returned = "retOk" THEN StateConnected ELSE StateConnecting

ConnectOutcome(returned) ==
  IF returned = "retOk" THEN StateConnected ELSE StateDisconnected

\* handleAttach's task after onConnect returned: SetState by the outcome.
ConnReturn(i) ==
  /\ conn[i] \in {"retOk", "retErr"}
  /\ SetState(ConnectOutcome(conn[i]))
  /\ conn' = [conn EXCEPT ![i] = "free"]
  /\ UNCHANGED <<present, plugs, hpc, wasConnected, disc, hs, epOpen, doneFn,
                 connMutex, heartbeatTicker, hbTasks, currentConfig, dongleReady,
                 connCalls, attachEdges, settled, ignored, replug, nonSvcVars>>

\* ------------------------------------------ StartWithConfig and heartbeat

\* StartWithConfig: currentConfig = config.
HsConfig(i) ==
  /\ hs[i] = "config"
  /\ currentConfig' = TRUE
  /\ hs' = [hs EXCEPT ![i] = "dpi"]
  /\ UNCHANGED <<present, plugs, state, hpc, wasConnected, conn, disc, epOpen, doneFn,
                 connMutex, heartbeatTicker, hbTasks, dongleReady, connCalls,
                 attachEdges, settled, ignored, replug, nonSvcVars>>

\* StartWithConfig: the two sends whose error is returned (screen_dpi, then
\* Open). SendData fails without endpoints; a write may fail.
HsCheckedSend(i) ==
  /\ hs[i] \in {"dpi", "open"}
  /\ \E writeOk \in BOOLEAN :
       hs' = [hs EXCEPT ![i] = IF epOpen /\ writeOk
                                 THEN (IF hs[i] = "dpi" THEN "open" ELSE "rest")
                                 ELSE "free"]
  /\ UNCHANGED <<present, plugs, state, hpc, wasConnected, conn, disc, epOpen, doneFn,
                 connMutex, heartbeatTicker, hbTasks, currentConfig, dongleReady,
                 connCalls, attachEdges, settled, ignored, replug, nonSvcVars>>

\* StartWithConfig: the sends whose error is dropped, the 600 ms settle sleep
\* and WifiConnect; then startHeartbeat's test of heartbeatTicker.
HsRest(i) ==
  /\ hs[i] = "rest"
  /\ hs' = [hs EXCEPT ![i] = IF heartbeatTicker THEN "free" ELSE "hbStart"]
  /\ UNCHANGED <<present, plugs, state, hpc, wasConnected, conn, disc, epOpen, doneFn,
                 connMutex, heartbeatTicker, hbTasks, currentConfig, dongleReady,
                 connCalls, attachEdges, settled, ignored, replug, nonSvcVars>>

\* startHeartbeat: create the ticker and the done channel, start the
\* heartbeat goroutine.
startHeartbeat(i) ==
  /\ hs[i] = "hbStart"
  /\ heartbeatTicker' = TRUE
  /\ hbTasks' = hbTasks + 1
  /\ hs' = [hs EXCEPT ![i] = "free"]
  /\ UNCHANGED <<present, plugs, state, hpc, wasConnected, conn, disc, epOpen, doneFn,
                 connMutex, currentConfig, dongleReady, connCalls, attachEdges,
                 settled, ignored, replug, nonSvcVars>>

\* ---------------------------------------------- the disconnect callback

\* handleDisconnection: dongleReady = false; link.Close takes
\* connectionMutex, cancels the context and waits (at most 500 ms) for the
\* dispatch loop.
DiscClose(j) ==
  /\ disc[j] = "close"
  /\ connMutex = 0
  /\ connMutex' = j
  /\ dongleReady' = FALSE
  /\ disc' = [disc EXCEPT ![j] = "stopHb"]
  /\ UNCHANGED <<present, plugs, state, hpc, wasConnected, conn, hs, epOpen, doneFn,
                 heartbeatTicker, hbTasks, currentConfig, connCalls, attachEdges,
                 settled, ignored, replug, nonSvcVars>>

\* stopHeartbeat: nothing without a ticker; else stop the ticker and hand
\* `true` to a heartbeat goroutine over the unbuffered done channel.
stopHeartbeat(j) ==
  /\ disc[j] = "stopHb"
  /\ IF heartbeatTicker
       THEN /\ hbTasks > 0
            /\ hbTasks' = hbTasks - 1
            /\ disc' = [disc EXCEPT ![j] = "hbClear"]
       ELSE /\ disc' = [disc EXCEPT ![j] = "release"]
            /\ UNCHANGED hbTasks
  /\ UNCHANGED <<present, plugs, state, hpc, wasConnected, conn, hs, epOpen, doneFn,
                 connMutex, heartbeatTicker, currentConfig, dongleReady, connCalls,
                 attachEdges, settled, ignored, replug, nonSvcVars>>

\* stopHeartbeat: heartbeatTicker = nil.
stopHeartbeatClear(j) ==
  /\ disc[j] = "hbClear"
  /\ heartbeatTicker' = FALSE
  /\ disc' = [disc EXCEPT ![j] = "release"]
  /\ UNCHANGED <<present, plugs, state, hpc, wasConnected, conn, hs, epOpen, doneFn,
                 connMutex, hbTasks, currentConfig, dongleReady, connCalls,
                 attachEdges, settled, ignored, replug, nonSvcVars>>

\* Close: Done(), then the endpoints and currentConfig are cleared and
\* connectionMutex is released; handleDisconnection goes on to stop the video
\* pipeline and drain the frame buffers.
DiscRelease(j) ==
  /\ disc[j] = "release"
  /\ doneFn' = FALSE
  /\ epOpen' = FALSE
  /\ currentConfig' = FALSE
  /\ connMutex' = 0
  /\ disc' = [disc EXCEPT ![j] = "setState"]
  /\ UNCHANGED <<present, plugs, state, hpc, wasConnected, conn, hs, heartbeatTicker,
                 hbTasks, dongleReady, connCalls, attachEdges, settled, ignored, replug,
                 nonSvcVars>>

\* handleDetach's task after onDisconnect returned: SetState(Disconnected).
DiscReturn(j) ==
  /\ disc[j] = "setState"
  /\ SetState(StateDisconnected)
  /\ settled' = (\A p \in Handlers : hpc[p] \notin {"attach", "attachSet"})
  /\ disc' = [disc EXCEPT ![j] = "free"]
  /\ UNCHANGED <<present, plugs, hpc, wasConnected, conn, hs, epOpen, doneFn,
                 connMutex, heartbeatTicker, hbTasks, currentConfig, dongleReady,
                 connCalls, attachEdges, ignored, replug, nonSvcVars>>

\* ------------------------------------------------ the service's initial state

SvcInit ==
  /\ present \in BOOLEAN
  /\ plugs = 0
  /\ state = StateDisconnected
  /\ hpc = [p \in Handlers |-> IF p = "poller" THEN "wait" ELSE "probe"]
  /\ wasConnected = FALSE
  /\ conn = [i \in ConnIds |-> "free"]
  /\ disc = [j \in DiscIds |-> "free"]
  /\ hs = [i \in ConnIds |-> "free"]
  /\ epOpen = FALSE
  /\ doneFn = FALSE
  /\ connMutex = 0
  /\ heartbeatTicker = FALSE
  /\ hbTasks = 0
  /\ currentConfig = FALSE
  /\ dongleReady = FALSE
  /\ connCalls = 0
  /\ attachEdges = IF present THEN 1 ELSE 0
  /\ settled = FALSE
  /\ ignored = {}
  /\ replug = "none"

\* ==================================================== one session's senders

\* The tasks that call SendData during a session: StartWithConfig, the
\* heartbeat goroutine, an HTTP touch helper (SendSingleTouch) and the
\* dispatch loop's Plugged handler (HandlePhonePlugged).
Senders == {"handshake", "heartbeat", "helper", "plugged"}

\* The configurations a session is started with.
Configs ==
  [AndroidWorkMode : BOOLEAN, AutoDetectAndroidMode : BOOLEAN,
   WifiType : {"5ghz", "2.4ghz"}, MicType : {"os", "box"},
   AudioTransferMode : BOOLEAN]

\* Phone types a Plugged message carries (protocol.PhoneType).
PhoneTypes == {"AndroidMirror", "CarPlay", "iPhoneMirror", "AndroidAuto", "HiCar"}

Msg(kind, arg) == [kind |-> kind, arg |-> arg]

\* DongleConfig.GetWifiCommand / GetMicCommand / GetAudioTransferCommand
GetWifiCommand(c) == IF c.WifiType = "5ghz" THEN "Wifi5g" ELSE "Wifi24g"
GetMicCommand(c) == IF c.MicType = "box" THEN "BoxMicrophone" ELSE "CarMicrophone"
GetAudioTransferCommand(c) ==
  IF c.AudioTransferMode THEN "AudioTransferOn" ELSE "AudioTransferOff"

\* The message StartWithConfig passes to SendData at each of its sends.
HsMessage(pos, c) ==
  CASE pos = "dpi"         -> Msg("SendFile", "/tmp/screen_dpi")
    [] pos = "open"        -> Msg("Open", "")
    [] pos = "night"       -> Msg("SendFile", "/tmp/night_mode")
    [] pos = "hand"        -> Msg("SendFile", "/tmp/hand_drive_mode")
    [] pos = "charge"      -> Msg("SendFile", "/tmp/charge_mode")
    [] pos = "boxname"     -> Msg("SendFile", "/etc/box_name")
    [] pos = "wifi"        -> Msg("CarPlay", GetWifiCommand(c))
    [] pos = "boxsettings" -> Msg("BoxSettings", "")
    [] pos = "supportwifi" -> Msg("CarPlay", "SupportWifi")
    [] pos = "mic"         -> Msg("CarPlay", GetMicCommand(c))
    [] pos = "audio"       -> Msg("CarPlay", GetAudioTransferCommand(c))
    [] pos = "android"     -> Msg("SendFile", "/etc/android_work_mode")
    [] pos = "wificonnect" -> Msg("CarPlay", "WifiConnect")

\* Where StartWithConfig goes after the send at `pos` has returned.
HsAfter_BoxSettingsBeforeWifi(pos) ==
  CASE pos = "dpi"         -> "open"
    [] pos = "open"        -> "night"
    [] pos = "night"       -> "hand"
    [] pos = "hand"        -> "charge"
    [] pos = "charge"      -> "boxname"
    [] pos = "boxname"     -> "boxsettings"
    [] pos = "boxsettings" -> "wifi"
    [] pos = "wifi"        -> "supportwifi"
    [] pos = "supportwifi" -> "mic"
    [] pos = "mic"         -> "audio"
    [] pos = "audio"       -> "androidCheck"
    [] pos = "android"     -> "sleep"
    [] pos = "wificonnect" -> "startHb"

HsAfter(pos) ==
  CASE pos = "dpi"         -> "open"
    [] pos = "open"        -> "night"
    [] pos = "night"       -> "hand"
    [] pos = "hand"        -> "charge"
    [] pos = "charge"      -> "boxname"
    [] pos = "boxname"     -> "wifi"
    [] pos = "wifi"        -> "boxsettings"
    [] pos = "boxsettings" -> "supportwifi"
    [] pos = "supportwifi" -> "mic"
    [] pos = "mic"         -> "audio"
    [] pos = "audio"       -> "androidCheck"
    [] pos = "android"     -> "sleep"
    [] pos = "wificonnect" -> "startHb"

\* StartWithConfig's positions that are a call of SendData.
HsSends == {"dpi", "open", "night", "hand", "charge", "boxname", "wifi", "boxsettings",
            "supportwifi", "mic", "audio", "android", "wificonnect"}

\* The sends whose error StartWithConfig returns; the others' is dropped.
HsCheckedSends == {"dpi", "open"}

\* The message a sender is sending.
Message(s) ==
  CASE s = "handshake" -> HsMessage(hsPos, config)
    [] s = "heartbeat" -> Msg("Heartbeat", "")
    [] s = "helper"    -> Msg("Touch", "")
    [] s = "plugged"   -> Msg("SendFile", "/etc/android_work_mode")

\* protocol.Marshal: whether the frame is longer than its 16 header bytes.
\* Heartbeat has no fields; BoxSettings' only field is skipped by the packer.
HasBody(m) == m.kind \notin {"Heartbeat", "BoxSettings"}

\* What a sender does once its SendData has returned (ok: no error).
Continue(s, ok) ==
  /\ spc' = [spc EXCEPT ![s] = IF s = "heartbeat" THEN "select" ELSE "idle"]
  /\ IF s = "handshake"
       THEN IF ~ok /\ hsPos \in HsCheckedSends
              THEN hsPos' = "returned" /\ hsResult' = "err"
              ELSE hsPos' = HsAfter(hsPos) /\ UNCHANGED hsResult
       ELSE UNCHANGED <<hsPos, hsResult>>
  /\ IF s = "plugged" /\ ok
       THEN config' = [config EXCEPT !.AndroidWorkMode = TRUE]
       ELSE UNCHANGED config
  /\ IF ok /\ s \in {"handshake", "plugged"}
          /\ Message(s) = Msg("SendFile", "/etc/android_work_mode")
       THEN androidFiles' = [androidFiles EXCEPT ![s] = @ + 1]
       ELSE UNCHANGED androidFiles

\* StartWithConfig: currentConfig = config.
HsStoreConfig ==
  /\ hsPos = "entry"
  /\ configStored' = TRUE
  /\ hsPos' = "dpi"
  /\ UNCHANGED <<epOut, config, hsAndroid, hsResult, spc, writeMutex, inFlight,
                 pendingBody, torn, sent, androidFiles, wsend, nonLnkVars>>

\* StartWithConfig calls SendData with its next message.
HsSend ==
  /\ hsPos \in HsSends
  /\ spc["handshake"] = "idle"
  /\ spc' = [spc EXCEPT !["handshake"] = "call"]
  /\ sent' = Append(sent, Message("handshake"))
  /\ UNCHANGED <<epOut, config, configStored, hsPos, hsAndroid, hsResult, writeMutex,
                 inFlight, pendingBody, torn, androidFiles, wsend, nonLnkVars>>

\* StartWithConfig: if config.AndroidWorkMode.
HsAndroidCheck ==
  /\ hsPos = "androidCheck"
  /\ hsAndroid' = config.AndroidWorkMode
  /\ hsPos' = IF config.AndroidWorkMode THEN "android" ELSE "sleep"
  /\ UNCHANGED <<epOut, config, configStored, hsResult, spc, writeMutex, inFlight,
                 pendingBody, torn, sent, androidFiles, wsend, nonLnkVars>>

\* StartWithConfig: the 600 ms settle delay.
HsSleep ==
  /\ hsPos = "sleep"
  /\ hsPos' = "wificonnect"
  /\ UNCHANGED <<epOut, config, configStored, hsAndroid, hsResult, spc, writeMutex,
                 inFlight, pendingBody, torn, sent, androidFiles, wsend, nonLnkVars>>

\* StartWithConfig: startHeartbeat (no ticker exists yet in a fresh session:
\* the heartbeat goroutine is started), then return nil.
HsStartHeartbeat ==
  /\ hsPos = "startHb"
  /\ spc' = [spc EXCEPT !["heartbeat"] = "select"]
  /\ hsPos' = "returned"
  /\ hsResult' = "nil"
  /\ UNCHANGED <<epOut, config, configStored, hsAndroid, writeMutex, inFlight,
                 pendingBody, torn, sent, androidFiles, wsend, nonLnkVars>>

\* The heartbeat goroutine: a tick of heartbeatTicker.
HeartbeatTick ==
  /\ spc["heartbeat"] = "select"
  /\ spc' = [spc EXCEPT !["heartbeat"] = "call"]
  /\ UNCHANGED <<epOut, config, configStored, hsPos, hsAndroid, hsResult, writeMutex,
                 inFlight, pendingBody, torn, sent, androidFiles, wsend, nonLnkVars>>

\* An HTTP touch request: SendSingleTouch.
HelperSend ==
  /\ spc["helper"] = "idle"
  /\ spc' = [spc EXCEPT !["helper"] = "call"]
  /\ UNCHANGED <<epOut, config, configStored, hsPos, hsAndroid, hsResult, writeMutex,
                 inFlight, pendingBody, torn, sent, androidFiles, wsend, nonLnkVars>>

\* HandlePhonePlugged's tests, up to its SendData.
WantsAndroidMode(stored, c, phoneType) ==
  /\ stored
  /\ c.AutoDetectAndroidMode
  /\ ~c.AndroidWorkMode
  /\ phoneType \in {"AndroidAuto", "AndroidMirror"}

\* The dispatch loop delivers a Plugged message: HandlePhonePlugged.
HandlePhonePlugged ==
  /\ spc["plugged"] = "idle"
  /\ \E phoneType \in PhoneTypes :
       spc' = [spc EXCEPT !["plugged"] =
                 IF WantsAndroidMode(configStored, config, phoneType)
                   THEN "call" ELSE "idle"]
  /\ UNCHANGED <<epOut, config, configStored, hsPos, hsAndroid, hsResult, writeMutex,
                 inFlight, pendingBody, torn, sent, androidFiles, wsend, nonLnkVars>>

\* The record of a sender's current call of SendData: whether the frame has
\* a body, the endpoint writes that have returned, and what the call returned.
NoSend == [body |-> FALSE, writes |-> << >>, result |-> "none"]

Wrote(w, part, ok) == [w EXCEPT !.writes = Append(@, [part |-> part, ok |-> ok])]

Returned(w, ok) == [w EXCEPT !.result = IF ok THEN "nil" ELSE "err"]

\* SendData: without an OUT endpoint return the not-connected error, else
\* call SendMessage.
SendData(s) ==
  /\ spc[s] = "call"
  /\ IF epOut
       THEN /\ spc' = [spc EXCEPT ![s] = "lock"]
            /\ wsend' = [wsend EXCEPT ![s] = NoSend]
            /\ UNCHANGED <<config, hsPos, hsResult, androidFiles>>
       ELSE /\ Continue(s, FALSE)
            /\ wsend' = [wsend EXCEPT ![s] = Returned(NoSend, FALSE)]
  /\ UNCHANGED <<epOut, configStored, hsAndroid, writeMutex, inFlight, pendingBody,
                 torn, sent, nonLnkVars>>

\* writeMutex.Lock() can return.
CanLock_NoMutex(s) == TRUE

CanLock(s) == writeMutex = "none"

\* An endpoint write by s begins: it is in flight, and it tears a message
\* when another sender's header is on the endpoint without its body.
BeginWrite(s) ==
  /\ inFlight' = inFlight \cup {s}
  /\ torn' = (torn \/ pendingBody \notin {"none", s})

\* SendMessage: writeMutex.Lock(), Marshal, and the header write begins.
SendMessageLock(s) ==
  /\ spc[s] = "lock"
  /\ CanLock(s)
  /\ writeMutex' = s
  /\ BeginWrite(s)
  /\ spc' = [spc EXCEPT ![s] = "hdr"]
  /\ wsend' = [wsend EXCEPT ![s] = [NoSend EXCEPT !.body = HasBody(Message(s))]]
  /\ UNCHANGED <<epOut, config, configStored, hsPos, hsAndroid, hsResult, pendingBody,
                 sent, androidFiles, nonLnkVars>>

\* SendMessage after epOut.Write(buf[:16]) has returned: the error is
\* returned; else, if len(buf) > 16, the rest of the frame is written.
AfterHeader_IgnoresError(writeOk, hasBody) == IF hasBody THEN "body" ELSE "return"

AfterHeader(writeOk, hasBody) == IF writeOk /\ hasBody THEN "body" ELSE "return"

\* SendMessage: epOut.Write(buf[:16]) returns. On an error, or when the frame
\* has no body, SendMessage returns (the deferred Unlock runs); else the body
\* write begins.
SendMessageHeaderDone(s) ==
  /\ spc[s] = "hdr"
  /\ \E writeOk \in BOOLEAN :
       IF AfterHeader(writeOk, HasBody(Message(s))) = "body"
         THEN /\ spc' = [spc EXCEPT ![s] = "body"]
              /\ pendingBody' = s
              /\ torn' = (torn \/ pendingBody \notin {"none", s})
              /\ wsend' = [wsend EXCEPT ![s] = Wrote(@, "header", writeOk)]
              /\ UNCHANGED <<inFlight, writeMutex, config, hsPos, hsResult,
                             androidFiles>>
         ELSE /\ inFlight' = inFlight \ {s}
              /\ writeMutex' = IF writeMutex = s THEN "none" ELSE writeMutex
              /\ Continue(s, writeOk)
              /\ wsend' = [wsend EXCEPT
                             ![s] = Returned(Wrote(@, "header", writeOk), writeOk)]
              /\ UNCHANGED <<pendingBody, torn>>
  /\ UNCHANGED <<epOut, configStored, hsAndroid, sent, nonLnkVars>>

\* SendMessage: epOut.Write(buf[16:]) returns; SendMessage returns.
SendMessageBodyDone(s) ==
  /\ spc[s] = "body"
  /\ inFlight' = inFlight \ {s}
  /\ pendingBody' = IF pendingBody = s THEN "none" ELSE pendingBody
  /\ writeMutex' = IF writeMutex = s THEN "none" ELSE writeMutex
  /\ \E writeOk \in BOOLEAN :
       /\ Continue(s, writeOk)
       /\ wsend' = [wsend EXCEPT ![s] = Returned(Wrote(@, "body", writeOk), writeOk)]
  /\ UNCHANGED <<epOut, configStored, hsAndroid, torn, sent, nonLnkVars>>

\* The service, at rest.
SvcIdle ==
  /\ SvcInit
  /\ present = FALSE

\* Link variables while the senders are not looked at.
LnkIdle ==
  /\ epOut = FALSE
  /\ config = [AndroidWorkMode |-> FALSE, AutoDetectAndroidMode |-> TRUE,
               WifiType |-> "5ghz", MicType |-> "os", AudioTransferMode |-> FALSE]
  /\ configStored = FALSE
  /\ hsPos = "entry"
  /\ hsAndroid = FALSE
  /\ hsResult = "running"
  /\ spc = [s \in Senders |-> IF s = "heartbeat" THEN "off" ELSE "idle"]
  /\ writeMutex = "none"
  /\ inFlight = {}
  /\ pendingBody = "none"
  /\ torn = FALSE
  /\ sent = <<>>
  /\ androidFiles = [s \in {"handshake", "plugged"} |-> 0]
  /\ wsend = [s \in Senders |-> NoSend]

\* A session: StartWithConfig is called with some configuration, on a link
\* that was initialised (the service's case) or was not.
LnkInit ==
  /\ epOut \in BOOLEAN
  /\ config \in Configs
  /\ configStored = FALSE
  /\ hsPos = "entry"
  /\ hsAndroid = FALSE
  /\ hsResult = "running"
  /\ spc = [s \in Senders |-> IF s = "heartbeat" THEN "off" ELSE "idle"]
  /\ writeMutex = "none"
  /\ inFlight = {}
  /\ pendingBody = "none"
  /\ torn = FALSE
  /\ sent = <<>>
  /\ androidFiles = [s \in {"handshake", "plugged"} |-> 0]
  /\ wsend = [s \in Senders |-> NoSend]

\* ========================================================= the H.264 buffer

\* make(chan []byte, 3)
H264Capacity == 3

Consumers == 1 .. MaxConsumers

\* A read of the buffer by a consumer or by the detach drain: the oldest
\* frame leaves the queue.
Read(reader) ==
  /\ Len(h264Frames) > 0
  /\ lastRead' = [frame |-> Head(h264Frames), after |-> inserted, latest |-> latest,
                  left |-> Len(h264Frames) - 1]
  /\ h264Frames' = Tail(h264Frames)
  /\ inserted' = 0

\* The dispatch loop hands a VideoData to the handler; only a non-empty frame
\* is inserted.
VideoData ==
  /\ vpc = "recv"
  /\ received < MaxFrames
  /\ received' = received + 1
  /\ \E nonEmpty \in BOOLEAN :
       IF nonEmpty
         THEN data' = received + 1 /\ vpc' = "drain"
         ELSE UNCHANGED <<data, vpc>>
  /\ UNCHANGED <<h264Frames, cpc, dpc, latest, inserted, lastRead, dropped, nonVidVars>>

\* The drain loop's select takes its default branch.
DrainDone_NoDrain(queue) == TRUE

DrainDone(queue) == Len(queue) = 0

\* "Drain old frames": one pass of the loop, a non-blocking receive.
DrainOldFrames ==
  /\ vpc = "drain"
  /\ IF DrainDone(h264Frames)
       THEN vpc' = "push" /\ UNCHANGED h264Frames
       ELSE h264Frames' = Tail(h264Frames) /\ UNCHANGED vpc
  /\ UNCHANGED <<data, received, cpc, dpc, latest, inserted, lastRead, dropped,
                 nonVidVars>>

\* The non-blocking send can proceed: the channel has room.
CanPush_Unbuffered(queue) == FALSE

CanPush(queue) == Len(queue) < H264Capacity

\* "Send latest frame": a non-blocking send, else the frame is dropped.
SendLatestFrame ==
  /\ vpc = "push"
  /\ IF CanPush(h264Frames)
       THEN /\ h264Frames' = Append(h264Frames, data)
            /\ latest' = data
            /\ inserted' = inserted + 1
            /\ UNCHANGED dropped
       ELSE /\ dropped' = TRUE
            /\ UNCHANGED <<h264Frames, latest, inserted>>
  /\ vpc' = "recv"
  /\ UNCHANGED <<data, received, cpc, dpc, lastRead, nonVidVars>>

\* writeH264ToFFmpeg: for frame := range h264Frames.
ConsumerReceive(c) ==
  /\ cpc[c] = "range"
  /\ Read(c)
  /\ cpc' = [cpc EXCEPT ![c] = "write"]
  /\ UNCHANGED <<vpc, data, received, dpc, latest, dropped, nonVidVars>>

\* writeH264ToFFmpeg: stdin.Write(frame) returns, however late.
ConsumerWrite(c) ==
  /\ cpc[c] = "write"
  /\ cpc' = [cpc EXCEPT ![c] = "range"]
  /\ UNCHANGED <<h264Frames, vpc, data, received, dpc, latest, inserted, lastRead,
                 dropped, nonVidVars>>

\* handleDisconnection reaches "Drain channels": the test len(h264Frames) > 0.
DetachDrainTest ==
  /\ dpc \in {"idle", "test"}
  /\ dpc' = IF Len(h264Frames) > 0 THEN "receive" ELSE "idle"
  /\ UNCHANGED <<h264Frames, vpc, data, received, cpc, latest, inserted, lastRead,
                 dropped, nonVidVars>>

\* handleDisconnection: <-h264Frames, a blocking receive.
DetachDrainReceive ==
  /\ dpc = "receive"
  /\ Read("detach")
  /\ dpc' = "test"
  /\ UNCHANGED <<vpc, data, received, cpc, latest, dropped, nonVidVars>>

NoRead == [frame |-> 0, after |-> 0, latest |-> 0, left |-> 0]

VidInit ==
  /\ h264Frames = <<>>
  /\ vpc = "recv"
  /\ data = 0
  /\ received = 0
  /\ cpc = [c \in Consumers |-> "range"]
  /\ dpc = "idle"
  /\ latest = 0
  /\ inserted = 0
  /\ lastRead = NoRead
  /\ dropped = FALSE

\* ------------------------------------------------------ the specifications

\* ============================================== one session's lifecycle

\* How many messages or I/O errors the dongle's IN endpoint delivers.
MaxRecv == 2

\* How many times heartbeatTicker fires.
MaxTicks == 1

\* The callers of link.Close: handleDisconnection run by the detach task, and
\* handleDisconnection run by cleanup at shutdown.
Closers == {"detach", "shutdown"}

\* The cleanup loops of ConnectWithTimeout (the deferred one and the returned
\* closure): `for _, task := range tasks { task() }`, the order of the calls.
RunTasks(tasks) == tasks

\* The process is alive: no goroutine has panicked.
Running == lpc # "panic"

\* Every link global is nil: the state Close leaves behind.
LinkClosed ==
  /\ ~epIn /\ ~Done /\ ~cancelCtx /\ commDoneChan = "nil"
  /\ ~sessionConfig /\ ticker = "nil"

\* No task that writes link globals outside connectionMutex is running or
\* about to be started.
NoLinkTask ==
  /\ tpc \notin {"comm", "start"}
  /\ hspc \in {"none", "returned"}
  /\ hbpc \in {"none", "exited"}

\* The hotplug monitor invokes the connect callback.
HandleConnectionCall ==
  /\ Running
  /\ tpc = "idle"
  /\ tpc' = "newctx"
  /\ UNCHANGED <<cleanTask, closeTask, freed, epIn, Done, cancelCtx, ctxErr,
                 commDoneChan, connectionMutex, sessionConfig, ticker, heartbeatDone,
                 lpc, recvs, recvErr, errCalls, loopResult, hspc, hbpc, ticks, clo,
                 entered, doneCalls, lateWrite, commNil, sendNil, nonSesVars>>

\* ConnectWithTimeout returns an error: the deferred cleanup runs cleanTask.
ReturnError_NoCleanup ==
  /\ freed' = freed
  /\ cleanTask' = << >>
  /\ tpc' = "failed"

ReturnError ==
  /\ freed' = freed \o RunTasks(cleanTask)
  /\ cleanTask' = << >>
  /\ tpc' = "failed"

\* ConnectWithTimeout: ctx := gousb.NewContext().
NewContext ==
  /\ Running
  /\ tpc = "newctx"
  /\ cleanTask' = Append(cleanTask, "ctx")
  /\ tpc' = "opendev"
  /\ UNCHANGED <<closeTask, freed, epIn, Done, cancelCtx, ctxErr, commDoneChan,
                 connectionMutex, sessionConfig, ticker, heartbeatDone, lpc, recvs,
                 recvErr, errCalls, loopResult, hspc, hbpc, ticks, clo, entered,
                 doneCalls, lateWrite, commNil, sendNil, nonSesVars>>

\* ConnectWithTimeout with no retries: one pass over KnownDevices.
OpenDeviceWithVIDPID ==
  /\ Running
  /\ tpc = "opendev"
  /\ \E found \in BOOLEAN :
       IF found
         THEN /\ cleanTask' = Append(cleanTask, "dev")
              /\ tpc' = "claim"
              /\ UNCHANGED freed
         ELSE ReturnError
  /\ UNCHANGED <<closeTask, epIn, Done, cancelCtx, ctxErr, commDoneChan,
                 connectionMutex, sessionConfig, ticker, heartbeatDone, lpc, recvs,
                 recvErr, errCalls, loopResult, hspc, hbpc, ticks, clo, entered,
                 doneCalls, lateWrite, commNil, sendNil, nonSesVars>>

\* ConnectWithTimeout: dev.DefaultInterface() claims the interface.
DefaultInterface ==
  /\ Running
  /\ tpc = "claim"
  /\ \E ok \in BOOLEAN :
       IF ok
         THEN /\ cleanTask' = Append(cleanTask, "intf")
              /\ tpc' = "endpoints"
              /\ UNCHANGED freed
         ELSE ReturnError
  /\ UNCHANGED <<closeTask, epIn, Done, cancelCtx, ctxErr, commDoneChan,
                 connectionMutex, sessionConfig, ticker, heartbeatDone, lpc, recvs,
                 recvErr, errCalls, loopResult, hspc, hbpc, ticks, clo, entered,
                 doneCalls, lateWrite, commNil, sendNil, nonSesVars>>

\* ConnectWithTimeout: the two endpoint lookups; on success the cleanup closure
\* captures a copy of cleanTask and cleanTask is set to nil.
Endpoints ==
  /\ Running
  /\ tpc = "endpoints"
  /\ \E ok \in BOOLEAN :
       IF ok
         THEN /\ closeTask' = cleanTask
              /\ cleanTask' = << >>
              /\ tpc' = "init"
              /\ UNCHANGED freed
         ELSE ReturnError /\ UNCHANGED closeTask
  /\ UNCHANGED <<epIn, Done, cancelCtx, ctxErr, commDoneChan, connectionMutex,
                 sessionConfig, ticker, heartbeatDone, lpc, recvs, recvErr, errCalls,
                 loopResult, hspc, hbpc, ticks, clo, entered, doneCalls, lateWrite,
                 commNil, sendNil, nonSesVars>>

\* handleConnection: link.InitWithEndpoints, under connectionMutex.
InitWithEndpoints ==
  /\ Running
  /\ tpc = "init"
  /\ connectionMutex = "none"
  /\ epIn' = TRUE
  /\ Done' = TRUE
  /\ cancelCtx' = TRUE
  /\ ctxErr' = FALSE
  /\ commDoneChan' = "open"
  /\ tpc' = "comm"
  /\ UNCHANGED <<cleanTask, closeTask, freed, connectionMutex, sessionConfig, ticker,
                 heartbeatDone, lpc, recvs, recvErr, errCalls, loopResult, hspc, hbpc,
                 ticks, clo, entered, doneCalls, lateWrite, commNil, sendNil,
                 nonSesVars>>

\* handleConnection: go func() { link.Communicate(...) }().
GoCommunicate ==
  /\ Running
  /\ tpc = "comm"
  /\ lpc' = "entry"
  /\ tpc' = "start"
  /\ UNCHANGED <<cleanTask, closeTask, freed, epIn, Done, cancelCtx, ctxErr,
                 commDoneChan, connectionMutex, sessionConfig, ticker, heartbeatDone,
                 recvs, recvErr, errCalls, loopResult, hspc, hbpc, ticks, clo, entered,
                 doneCalls, lateWrite, commNil, sendNil, nonSesVars>>

\* handleConnection: go link.StartWithConfig(config).
GoStartWithConfig ==
  /\ Running
  /\ tpc = "start"
  /\ hspc' = "config"
  /\ tpc' = "ffmpeg"
  /\ UNCHANGED <<cleanTask, closeTask, freed, epIn, Done, cancelCtx, ctxErr,
                 commDoneChan, connectionMutex, sessionConfig, ticker, heartbeatDone,
                 lpc, recvs, recvErr, errCalls, loopResult, hbpc, ticks, clo, entered,
                 doneCalls, lateWrite, commNil, sendNil, nonSesVars>>

\* handleConnection: startFFmpegConverter; its error is returned.
StartFFmpegConverter ==
  /\ Running
  /\ tpc = "ffmpeg"
  /\ \E ok \in BOOLEAN : tpc' = IF ok THEN "warm" ELSE "failed"
  /\ UNCHANGED <<cleanTask, closeTask, freed, epIn, Done, cancelCtx, ctxErr,
                 commDoneChan, connectionMutex, sessionConfig, ticker, heartbeatDone,
                 lpc, recvs, recvErr, errCalls, loopResult, hspc, hbpc, ticks, clo,
                 entered, doneCalls, lateWrite, commNil, sendNil, nonSesVars>>

\* handleConnection: the warm-up sleep, dongleReady = true, return nil.
HandleConnectionReturn ==
  /\ Running
  /\ tpc = "warm"
  /\ tpc' = "ready"
  /\ UNCHANGED <<cleanTask, closeTask, freed, epIn, Done, cancelCtx, ctxErr,
                 commDoneChan, connectionMutex, sessionConfig, ticker, heartbeatDone,
                 lpc, recvs, recvErr, errCalls, loopResult, hspc, hbpc, ticks, clo,
                 entered, doneCalls, lateWrite, commNil, sendNil, nonSesVars>>

\* ------------------------------------------------------------ Communicate

\* `if epIn == nil` in Communicate and `if epOut == nil` in SendData: the
\* endpoint is there. (The two globals are set and cleared together.)
Connected_Always(ep) == TRUE

Connected(ep) == ep

\* SendData called by a goroutine of the session: what it does when it finds
\* no OUT endpoint is recorded in sendNil.
SendDataRecord ==
  sendNil' = IF epIn THEN sendNil
             ELSE IF Connected(epIn) THEN "write" ELSE "NotConnected"

\* Communicate: without an IN endpoint return the not-connected error; else
\* register the deferred close of commDoneChan and enter the loop.
CommunicateEntry ==
  /\ Running
  /\ lpc = "entry"
  /\ commNil' = ~epIn
  /\ IF Connected(epIn)
       THEN lpc' = "top" /\ UNCHANGED loopResult
       ELSE lpc' = "returned" /\ loopResult' = "NotConnected"
  /\ UNCHANGED <<tpc, cleanTask, closeTask, freed, epIn, Done, cancelCtx, ctxErr,
                 commDoneChan, connectionMutex, sessionConfig, ticker, heartbeatDone,
                 recvs, recvErr, errCalls, hspc, hbpc, ticks, clo, entered, doneCalls,
                 lateWrite, sendNil, nonSesVars>>

\* The loop's first statement: select on ctx.Done() with a default branch.
CommunicateSelect ==
  /\ Running
  /\ lpc = "top"
  /\ IF ctxErr
       THEN lpc' = "deferCheck" /\ loopResult' = "Canceled"
       ELSE lpc' = "recv" /\ UNCHANGED loopResult
  /\ UNCHANGED <<tpc, cleanTask, closeTask, freed, epIn, Done, cancelCtx, ctxErr,
                 commDoneChan, connectionMutex, sessionConfig, ticker, heartbeatDone,
                 recvs, recvErr, errCalls, hspc, hbpc, ticks, clo, entered, doneCalls,
                 lateWrite, commNil, sendNil, nonSesVars>>

\* ReceiveMessage(epIn, ctx): a decoded message, an I/O or framing error, or,
\* once ctx is cancelled, the cancellation error.
ReceiveMessage ==
  /\ Running
  /\ lpc = "recv"
  /\ \/ /\ recvs < MaxRecv
        /\ recvs' = recvs + 1
        /\ \/ lpc' = "onData" /\ UNCHANGED recvErr
           \/ lpc' = "errCheck" /\ recvErr' = "io"
     \/ /\ ctxErr
        /\ lpc' = "errCheck" /\ recvErr' = "cancelled"
        /\ UNCHANGED recvs
  /\ UNCHANGED <<tpc, cleanTask, closeTask, freed, epIn, Done, cancelCtx, ctxErr,
                 commDoneChan, connectionMutex, sessionConfig, ticker, heartbeatDone,
                 errCalls, loopResult, hspc, hbpc, ticks, clo, entered, doneCalls,
                 lateWrite, commNil, sendNil, nonSesVars>>

\* The loop's test after a failed ReceiveMessage: if ctx.Err() != nil, return.
CommunicateExits_OnAnyError(cancelled) == TRUE

CommunicateExits(cancelled) == cancelled

\* Communicate after a failed ReceiveMessage: return ctx.Err() when the context
\* is cancelled, else onError(err) and the next pass of the loop.
CommunicateError ==
  /\ Running
  /\ lpc = "errCheck"
  /\ IF CommunicateExits(ctxErr)
       THEN /\ lpc' = "deferCheck"
            /\ loopResult' = IF ctxErr THEN "Canceled" ELSE "nil"
            /\ UNCHANGED errCalls
       ELSE /\ errCalls' = errCalls + 1
            /\ lpc' = "top"
            /\ UNCHANGED loopResult
  /\ UNCHANGED <<tpc, cleanTask, closeTask, freed, epIn, Done, cancelCtx, ctxErr,
                 commDoneChan, connectionMutex, sessionConfig, ticker, heartbeatDone,
                 recvs, recvErr, hspc, hbpc, ticks, clo, entered, doneCalls, lateWrite,
                 commNil, sendNil, nonSesVars>>

\* Communicate: onData(received) returns.
CommunicateData ==
  /\ Running
  /\ lpc = "onData"
  /\ lpc' = "top"
  /\ UNCHANGED <<tpc, cleanTask, closeTask, freed, epIn, Done, cancelCtx, ctxErr,
                 commDoneChan, connectionMutex, sessionConfig, ticker, heartbeatDone,
                 recvs, recvErr, errCalls, loopResult, hspc, hbpc, ticks, clo, entered,
                 doneCalls, lateWrite, commNil, sendNil, nonSesVars>>

\* The deferred function's test: if commDoneChan != nil.
CommunicateDeferTest ==
  /\ Running
  /\ lpc = "deferCheck"
  /\ lpc' = IF commDoneChan # "nil" THEN "deferClose" ELSE "returned"
  /\ UNCHANGED <<tpc, cleanTask, closeTask, freed, epIn, Done, cancelCtx, ctxErr,
                 commDoneChan, connectionMutex, sessionConfig, ticker, heartbeatDone,
                 recvs, recvErr, errCalls, loopResult, hspc, hbpc, ticks, clo, entered,
                 doneCalls, lateWrite, commNil, sendNil, nonSesVars>>

\* The deferred function's body: close(commDoneChan), which panics on the nil
\* channel Close may have stored meanwhile; commDoneChan = nil.
CommunicateDeferClose ==
  /\ Running
  /\ lpc = "deferClose"
  /\ IF commDoneChan = "nil"
       THEN lpc' = "panic" /\ UNCHANGED commDoneChan
       ELSE lpc' = "returned" /\ commDoneChan' = "nil"
  /\ UNCHANGED <<tpc, cleanTask, closeTask, freed, epIn, Done, cancelCtx, ctxErr,
                 connectionMutex, sessionConfig, ticker, heartbeatDone, recvs, recvErr,
                 errCalls, loopResult, hspc, hbpc, ticks, clo, entered, doneCalls,
                 lateWrite, commNil, sendNil, nonSesVars>>

\* ------------------------------------------- StartWithConfig, startHeartbeat

\* StartWithConfig: currentConfig = config.
StartWithConfigStore ==
  /\ Running
  /\ hspc = "config"
  /\ sessionConfig' = TRUE
  /\ hspc' = "dpi"
  /\ UNCHANGED <<tpc, cleanTask, closeTask, freed, epIn, Done, cancelCtx, ctxErr,
                 commDoneChan, connectionMutex, ticker, heartbeatDone, lpc, recvs,
                 recvErr, errCalls, loopResult, hbpc, ticks, clo, entered, doneCalls,
                 lateWrite, commNil, sendNil, nonSesVars>>

\* StartWithConfig: the screen_dpi and Open sends, whose error is returned.
\* SendData fails without an OUT endpoint; a write may fail.
StartWithConfigChecked ==
  /\ Running
  /\ hspc \in {"dpi", "open"}
  /\ \E writeOk \in BOOLEAN :
       hspc' = IF Connected(epIn) /\ writeOk
                 THEN (IF hspc = "dpi" THEN "open" ELSE "rest")
                 ELSE "returned"
  /\ SendDataRecord
  /\ UNCHANGED <<tpc, cleanTask, closeTask, freed, epIn, Done, cancelCtx, ctxErr,
                 commDoneChan, connectionMutex, sessionConfig, ticker, heartbeatDone,
                 lpc, recvs, recvErr, errCalls, loopResult, hbpc, ticks, clo, entered,
                 doneCalls, lateWrite, commNil, nonSesVars>>

\* StartWithConfig: the sends whose error is dropped, the settle sleep and
\* WifiConnect.
StartWithConfigRest ==
  /\ Running
  /\ hspc = "rest"
  /\ hspc' = "hbCheck"
  /\ SendDataRecord
  /\ UNCHANGED <<tpc, cleanTask, closeTask, freed, epIn, Done, cancelCtx, ctxErr,
                 commDoneChan, connectionMutex, sessionConfig, ticker, heartbeatDone,
                 lpc, recvs, recvErr, errCalls, loopResult, hbpc, ticks, clo, entered,
                 doneCalls, lateWrite, commNil, nonSesVars>>

\* startHeartbeat: if heartbeatTicker != nil, return.
StartHeartbeatTest ==
  /\ Running
  /\ hspc = "hbCheck"
  /\ hspc' = IF ticker # "nil" THEN "returned" ELSE "hbTicker"
  /\ UNCHANGED <<tpc, cleanTask, closeTask, freed, epIn, Done, cancelCtx, ctxErr,
                 commDoneChan, connectionMutex, sessionConfig, ticker, heartbeatDone,
                 lpc, recvs, recvErr, errCalls, loopResult, hbpc, ticks, clo, entered,
                 doneCalls, lateWrite, commNil, sendNil, nonSesVars>>

\* startHeartbeat: heartbeatTicker = time.NewTicker(2 * time.Second).
StartHeartbeatTicker ==
  /\ Running
  /\ hspc = "hbTicker"
  /\ ticker' = "running"
  /\ hspc' = "hbChan"
  /\ UNCHANGED <<tpc, cleanTask, closeTask, freed, epIn, Done, cancelCtx, ctxErr,
                 commDoneChan, connectionMutex, sessionConfig, heartbeatDone, lpc,
                 recvs, recvErr, errCalls, loopResult, hbpc, ticks, clo, entered,
                 doneCalls, lateWrite, commNil, sendNil, nonSesVars>>

\* startHeartbeat: heartbeatDone = make(chan bool).
StartHeartbeatChan ==
  /\ Running
  /\ hspc = "hbChan"
  /\ heartbeatDone' = TRUE
  /\ hspc' = "hbGo"
  /\ UNCHANGED <<tpc, cleanTask, closeTask, freed, epIn, Done, cancelCtx, ctxErr,
                 commDoneChan, connectionMutex, sessionConfig, ticker, lpc, recvs,
                 recvErr, errCalls, loopResult, hbpc, ticks, clo, entered, doneCalls,
                 lateWrite, commNil, sendNil, nonSesVars>>

\* startHeartbeat: go func() { ... }(); StartWithConfig returns nil.
StartHeartbeatGo ==
  /\ Running
  /\ hspc = "hbGo"
  /\ hbpc' = "select"
  /\ hspc' = "returned"
  /\ UNCHANGED <<tpc, cleanTask, closeTask, freed, epIn, Done, cancelCtx, ctxErr,
                 commDoneChan, connectionMutex, sessionConfig, ticker, heartbeatDone,
                 lpc, recvs, recvErr, errCalls, loopResult, ticks, clo, entered,
                 doneCalls, lateWrite, commNil, sendNil, nonSesVars>>

\* --------------------------------------------------- the heartbeat goroutine

\* The heartbeat goroutine's select: heartbeatTicker.C delivers a tick.
HeartbeatFires ==
  /\ Running
  /\ hbpc = "select"
  /\ ticker = "running"
  /\ ticks < MaxTicks
  /\ ticks' = ticks + 1
  /\ hbpc' = "call"
  /\ UNCHANGED <<tpc, cleanTask, closeTask, freed, epIn, Done, cancelCtx, ctxErr,
                 commDoneChan, connectionMutex, sessionConfig, ticker, heartbeatDone,
                 lpc, recvs, recvErr, errCalls, loopResult, hspc, clo, entered,
                 doneCalls, lateWrite, commNil, sendNil, nonSesVars>>

\* SendData(&protocol.Heartbeat{}): the not-connected error without an OUT
\* endpoint, else SendMessage is called with the endpoint read.
HeartbeatSendData ==
  /\ Running
  /\ hbpc = "call"
  /\ hbpc' = IF Connected(epIn) THEN "write" ELSE "select"
  /\ SendDataRecord
  /\ UNCHANGED <<tpc, cleanTask, closeTask, freed, epIn, Done, cancelCtx, ctxErr,
                 commDoneChan, connectionMutex, sessionConfig, ticker, heartbeatDone,
                 lpc, recvs, recvErr, errCalls, loopResult, hspc, ticks, clo, entered,
                 doneCalls, lateWrite, commNil, nonSesVars>>

\* SendMessage: the Heartbeat's header is written to the endpoint.
HeartbeatWrite ==
  /\ Running
  /\ hbpc = "write"
  /\ lateWrite' = (lateWrite \/ doneCalls > 0)
  /\ hbpc' = "select"
  /\ UNCHANGED <<tpc, cleanTask, closeTask, freed, epIn, Done, cancelCtx, ctxErr,
                 commDoneChan, connectionMutex, sessionConfig, ticker, heartbeatDone,
                 lpc, recvs, recvErr, errCalls, loopResult, hspc, ticks, clo, entered,
                 doneCalls, commNil, sendNil, nonSesVars>>

\* ------------------------------------------------------------------ Close

\* handleDisconnection is run (by the detach task, or by cleanup) and calls
\* link.Close.
CloseCall(k) ==
  /\ Running
  /\ clo[k] = "idle"
  /\ clo' = [clo EXCEPT ![k] = "lock"]
  /\ UNCHANGED <<tpc, cleanTask, closeTask, freed, epIn, Done, cancelCtx, ctxErr,
                 commDoneChan, connectionMutex, sessionConfig, ticker, heartbeatDone,
                 lpc, recvs, recvErr, errCalls, loopResult, hspc, hbpc, ticks, entered,
                 doneCalls, lateWrite, commNil, sendNil, nonSesVars>>

\* Close: connectionMutex.Lock().
CloseLock(k) ==
  /\ Running
  /\ clo[k] = "lock"
  /\ connectionMutex = "none"
  /\ connectionMutex' = k
  /\ entered' = [entered EXCEPT ![k] =
                   IF LinkClosed /\ NoLinkTask THEN "closed" ELSE "open"]
  /\ clo' = [clo EXCEPT ![k] = "cancel"]
  /\ UNCHANGED <<tpc, cleanTask, closeTask, freed, epIn, Done, cancelCtx, ctxErr,
                 commDoneChan, sessionConfig, ticker, heartbeatDone, lpc, recvs,
                 recvErr, errCalls, loopResult, hspc, hbpc, ticks, doneCalls, lateWrite,
                 commNil, sendNil, nonSesVars>>

\* Close: if cancelCtx != nil { cancelCtx(); cancelCtx = nil }.
CloseCancel(k) ==
  /\ Running
  /\ clo[k] = "cancel"
  /\ IF cancelCtx
       THEN ctxErr' = TRUE /\ cancelCtx' = FALSE
       ELSE UNCHANGED <<ctxErr, cancelCtx>>
  /\ clo' = [clo EXCEPT ![k] = "wait"]
  /\ UNCHANGED <<tpc, cleanTask, closeTask, freed, epIn, Done, commDoneChan,
                 connectionMutex, sessionConfig, ticker, heartbeatDone, lpc, recvs,
                 recvErr, errCalls, loopResult, hspc, hbpc, ticks, entered, doneCalls,
                 lateWrite, commNil, sendNil, nonSesVars>>

\* Close: if commDoneChan != nil, wait until it is closed or 500 ms have
\* passed, whichever comes first; commDoneChan = nil.
CloseWait(k) ==
  /\ Running
  /\ clo[k] = "wait"
  /\ commDoneChan' = "nil"
  /\ clo' = [clo EXCEPT ![k] = "stopHb"]
  /\ UNCHANGED <<tpc, cleanTask, closeTask, freed, epIn, Done, cancelCtx, ctxErr,
                 connectionMutex, sessionConfig, ticker, heartbeatDone, lpc, recvs,
                 recvErr, errCalls, loopResult, hspc, hbpc, ticks, entered, doneCalls,
                 lateWrite, commNil, sendNil, nonSesVars>>

\* stopHeartbeat: if heartbeatTicker != nil, heartbeatTicker.Stop().
StopHeartbeatTest(k) ==
  /\ Running
  /\ clo[k] = "stopHb"
  /\ IF ticker # "nil"
       THEN ticker' = "stopped" /\ clo' = [clo EXCEPT ![k] = "hbEval"]
       ELSE UNCHANGED ticker /\ clo' = [clo EXCEPT ![k] = "done"]
  /\ UNCHANGED <<tpc, cleanTask, closeTask, freed, epIn, Done, cancelCtx, ctxErr,
                 commDoneChan, connectionMutex, sessionConfig, heartbeatDone, lpc,
                 recvs, recvErr, errCalls, loopResult, hspc, hbpc, ticks, entered,
                 doneCalls, lateWrite, commNil, sendNil, nonSesVars>>

\* stopHeartbeat: heartbeatDone <- true begins. The channel is the one the
\* global holds now; a send on a nil channel never completes.
StopHeartbeatSend(k) ==
  /\ Running
  /\ clo[k] = "hbEval"
  /\ clo' = [clo EXCEPT ![k] = IF heartbeatDone THEN "hbSend" ELSE "hbStuck"]
  /\ UNCHANGED <<tpc, cleanTask, closeTask, freed, epIn, Done, cancelCtx, ctxErr,
                 commDoneChan, connectionMutex, sessionConfig, ticker, heartbeatDone,
                 lpc, recvs, recvErr, errCalls, loopResult, hspc, hbpc, ticks, entered,
                 doneCalls, lateWrite, commNil, sendNil, nonSesVars>>

\* The unbuffered hand-over: Close's send meets the heartbeat goroutine's
\* receive in its select, and the goroutine returns.
HeartbeatStop(k) ==
  /\ Running
  /\ clo[k] = "hbSend"
  /\ hbpc = "select"
  /\ hbpc' = "exited"
  /\ clo' = [clo EXCEPT ![k] = "hbNil"]
  /\ UNCHANGED <<tpc, cleanTask, closeTask, freed, epIn, Done, cancelCtx, ctxErr,
                 commDoneChan, connectionMutex, sessionConfig, ticker, heartbeatDone,
                 lpc, recvs, recvErr, errCalls, loopResult, hspc, ticks, entered,
                 doneCalls, lateWrite, commNil, sendNil, nonSesVars>>

\* stopHeartbeat: heartbeatTicker = nil.
StopHeartbeatNil(k) ==
  /\ Running
  /\ clo[k] = "hbNil"
  /\ ticker' = "nil"
  /\ clo' = [clo EXCEPT ![k] = "done"]
  /\ UNCHANGED <<tpc, cleanTask, closeTask, freed, epIn, Done, cancelCtx, ctxErr,
                 commDoneChan, connectionMutex, sessionConfig, heartbeatDone, lpc,
                 recvs, recvErr, errCalls, loopResult, hspc, hbpc, ticks, entered,
                 doneCalls, lateWrite, commNil, sendNil, nonSesVars>>

\* Close after Done(): Done = nil.
DoneAfterCall_Kept == TRUE

DoneAfterCall == FALSE

\* Close: if Done != nil { Done(); Done = nil }.
CloseDone(k) ==
  /\ Running
  /\ clo[k] = "done"
  /\ IF Done
       THEN /\ freed' = freed \o RunTasks(closeTask)
            /\ doneCalls' = doneCalls + 1
            /\ Done' = DoneAfterCall
       ELSE UNCHANGED <<freed, doneCalls, Done>>
  /\ clo' = [clo EXCEPT ![k] = "clear"]
  /\ UNCHANGED <<tpc, cleanTask, closeTask, epIn, cancelCtx, ctxErr, commDoneChan,
                 connectionMutex, sessionConfig, ticker, heartbeatDone, lpc, recvs,
                 recvErr, errCalls, loopResult, hspc, hbpc, ticks, entered, lateWrite,
                 commNil, sendNil, nonSesVars>>

\* Close: epIn = nil, epOut = nil, currentConfig = nil; the deferred Unlock.
CloseClear(k) ==
  /\ Running
  /\ clo[k] = "clear"
  /\ epIn' = FALSE
  /\ sessionConfig' = FALSE
  /\ connectionMutex' = "none"
  /\ clo' = [clo EXCEPT ![k] = "returned"]
  /\ UNCHANGED <<tpc, cleanTask, closeTask, freed, Done, cancelCtx, ctxErr,
                 commDoneChan, ticker, heartbeatDone, lpc, recvs, recvErr, errCalls,
                 loopResult, hspc, hbpc, ticks, entered, doneCalls, lateWrite, commNil,
                 sendNil, nonSesVars>>

\* The session variables while the lifecycle is not looked at, and at the
\* service's start: nothing is open and no task runs.
SesInit ==
  /\ tpc = "idle"
  /\ cleanTask = << >>
  /\ closeTask = << >>
  /\ freed = << >>
  /\ epIn = FALSE
  /\ Done = FALSE
  /\ cancelCtx = FALSE
  /\ ctxErr = FALSE
  /\ commDoneChan = "nil"
  /\ connectionMutex = "none"
  /\ sessionConfig = FALSE
  /\ ticker = "nil"
  /\ heartbeatDone = FALSE
  /\ lpc = "none"
  /\ recvs = 0
  /\ recvErr = "none"
  /\ errCalls = 0
  /\ loopResult = "none"
  /\ hspc = "none"
  /\ hbpc = "none"
  /\ ticks = 0
  /\ clo = [k \in Closers |-> "idle"]
  /\ entered = [k \in Closers |-> "no"]
  /\ doneCalls = 0
  /\ lateWrite = FALSE
  /\ commNil = FALSE
  /\ sendNil = "none"

\* ================================================ the decoding of VideoData

\* Unmarshal: Width(4) + Height(4) + Flags(4) + Length(4) + Unknown2(4).
HeaderSize == 20

Bytes == 0 .. MaxByte

\* The H.264 payloads the dongle sends.
Payloads == UNION {[1 .. n -> Bytes] : n \in 0 .. MaxPayload}

\* A VideoData header whose Length field (bytes 12..15, little-endian) is l.
Header(l) == [i \in 1 .. HeaderSize |-> IF i = 13 THEN l ELSE 0]

\* The bodies ReceiveMessage hands to Unmarshal for a VideoData: a header whose
\* Length field is right, too small or too large for the payload that follows,
\* a truncated header, and an empty body.
Bodies ==
  {Header(l) \o p : l \in 0 .. MaxPayload, p \in Payloads}
    \cup {SubSeq(Header(0), 1, n) : n \in {0, HeaderSize - 1}}

\* A nil slice.
NilSlice == [buf |-> "nil", off |-> 0, len |-> 0]

\* The bytes a slice denotes now: a Go slice is a view of its backing array,
\* here the receive buffer or the array Unmarshal allocated.
Deref(slice) ==
  CASE slice.buf = "rx" -> SubSeq(rxBuf, slice.off + 1, slice.off + slice.len)
    [] slice.buf = "owned" -> SubSeq(owned, slice.off + 1, slice.off + slice.len)
    [] OTHER -> << >>

\* binary.LittleEndian.Uint32(b)
LittleEndianUint32(b) == b[1] + 256 * b[2] + 65536 * b[3] + 16777216 * b[4]

\* The Length field of a body that holds a whole header.
LengthField(bytes) == LittleEndianUint32(SubSeq(bytes, 13, 16))

\* struc.Unpack(bytes.NewBuffer(data), payload) for a VideoData: it reads the
\* five int32 fields and then Length bytes of Data, and fails when the buffer
\* ends before that.
UnpackFails(bytes) ==
  \/ Len(bytes) < HeaderSize
  \/ LengthField(bytes) > Len(bytes) - HeaderSize

\* Unmarshal, VideoData case, len(data) > 20: payload.Data.
VideoFrameData_Alias(bytes) ==
  [buf |-> "rx", off |-> HeaderSize, len |-> Len(bytes) - HeaderSize]

VideoFrameData(bytes) ==
  [buf |-> "owned", off |-> 0, len |-> Len(bytes) - HeaderSize]

\* Unmarshal(data, &VideoData{}): struc.Unpack unless the body is empty, then
\* the VideoData case; with more than 20 bytes Data is made and filled by
\* copy(payload.Data, data[20:]).
UnmarshalVideoData ==
  /\ cdpc = "received"
  /\ body' = rxBuf
  /\ IF Len(rxBuf) > 0 /\ UnpackFails(rxBuf)
       THEN /\ cdpc' = "failed"
            /\ UNCHANGED <<owned, payload>>
       ELSE /\ cdpc' = "decoded"
            /\ LET Data == IF Len(rxBuf) > HeaderSize
                             THEN VideoFrameData(rxBuf) ELSE NilSlice
               IN /\ payload' = [Length |-> IF Len(rxBuf) >= HeaderSize
                                                 THEN LengthField(rxBuf) ELSE 0,
                                   Data |-> Data]
                  /\ owned' = IF Data.buf = "owned"
                                THEN SubSeq(rxBuf, HeaderSize + 1, Len(rxBuf))
                                ELSE owned
  /\ UNCHANGED <<rxBuf, frameRef, consumed, reused, nonCdcVars>>

\* The VideoData handler: only a non-empty frame is sent to h264Frames, and
\* what is sent is the slice data.Data itself.
OnVideoData ==
  /\ cdpc = "decoded"
  /\ IF payload.Data.len > 0
       THEN frameRef' = payload.Data /\ cdpc' = "queued"
       ELSE cdpc' = "skipped" /\ UNCHANGED frameRef
  /\ UNCHANGED <<rxBuf, owned, payload, consumed, body, reused, nonCdcVars>>

\* The next transfer reuses the receive buffer: its bytes are written over the
\* ones decoded before.
ReuseReceiveBuffer ==
  /\ cdpc \in {"decoded", "queued"}
  /\ ~reused
  /\ \E next \in Bodies :
       /\ rxBuf' = [i \in 1 .. Len(rxBuf) |->
                      IF i <= Len(next) THEN next[i] ELSE rxBuf[i]]
       /\ rxBuf' # rxBuf
  /\ reused' = TRUE
  /\ UNCHANGED <<cdpc, owned, payload, frameRef, consumed, body, nonCdcVars>>

\* writeH264ToFFmpeg receives the slice and reads its bytes: stdin.Write(frame).
ConsumerReadFrame ==
  /\ cdpc = "queued"
  /\ consumed' = Deref(frameRef)
  /\ cdpc' = "consumed"
  /\ UNCHANGED <<rxBuf, owned, payload, frameRef, body, reused, nonCdcVars>>

\* The codec variables while no decoding is looked at.
CdcIdle ==
  /\ cdpc = "idle"
  /\ rxBuf = << >>
  /\ owned = << >>
  /\ payload = [Length |-> 0, Data |-> NilSlice]
  /\ frameRef = NilSlice
  /\ consumed = << >>
  /\ body = << >>
  /\ reused = FALSE

\* A VideoData body has been received into the receive buffer.
CdcInit ==
  /\ cdpc = "received"
  /\ rxBuf \in Bodies
  /\ owned = << >>
  /\ payload = [Length |-> 0, Data |-> NilSlice]
  /\ frameRef = NilSlice
  /\ consumed = << >>
  /\ body = << >>
  /\ reused = FALSE

\* ===================================== dispatch loops across sessions

Sessions == 1 .. MaxSessions

\* handleConnection: link.InitWithEndpoints for the next session stores its
\* endpoints, a fresh context and a fresh commDoneChan in the package globals.
NextInitWithEndpoints ==
  /\ phase = "detached"
  /\ cur < MaxSessions
  /\ cur' = cur + 1
  /\ gEpIn' = cur + 1
  /\ gCtx' = cur + 1
  /\ gCancelCtx' = TRUE
  /\ gCommDoneChan' = cur + 1
  /\ phase' = "comm"
  /\ UNCHANGED <<cancelledCtx, closedChans, mpc, reading, ctxArg, mrecvs, writers,
                 nonMlsVars>>

\* handleConnection: go func() { link.Communicate(...) }() for that session.
NextGoCommunicate ==
  /\ phase = "comm"
  /\ mpc' = [mpc EXCEPT ![cur] = "entry"]
  /\ phase' = "ffmpeg"
  /\ UNCHANGED <<gEpIn, gCtx, gCancelCtx, cancelledCtx, gCommDoneChan, closedChans, cur,
                 reading, ctxArg, mrecvs, writers, nonMlsVars>>

\* A writeH264ToFFmpeg task returns: `for frame := range h264Frames` ends when
\* the channel is closed, and nothing closes h264Frames.
WriterReturns == FALSE

\* handleConnection: startFFmpegConverter. When ffmpeg starts, a new
\* writeH264ToFFmpeg task is started with it; when it does not,
\* handleConnection returns the error and the session is never detached.
NextStartFFmpegConverter ==
  /\ phase = "ffmpeg"
  /\ \E started \in BOOLEAN :
       IF started
         THEN writers' = writers + 1 /\ phase' = "attached"
         ELSE UNCHANGED writers /\ phase' = "detached"
  /\ UNCHANGED <<gEpIn, gCtx, gCancelCtx, cancelledCtx, gCommDoneChan, closedChans, cur,
                 mpc, reading, ctxArg, mrecvs, nonMlsVars>>

\* handleDisconnection: stopVideoPipeline closes ffmpeg's stdin and kills the
\* process; the writer tasks stay in their range loop.
DetachStopVideoPipeline ==
  /\ phase = "stop"
  /\ writers' = IF WriterReturns THEN 0 ELSE writers
  /\ phase' = "detached"
  /\ UNCHANGED <<gEpIn, gCtx, gCancelCtx, cancelledCtx, gCommDoneChan, closedChans, cur,
                 mpc, reading, ctxArg, mrecvs, nonMlsVars>>

\* Communicate of loop i: if epIn == nil, return the not-connected error.
LoopEntry(i) ==
  /\ mpc[i] = "entry"
  /\ mpc' = [mpc EXCEPT ![i] = IF gEpIn = 0 THEN "returned" ELSE "top"]
  /\ UNCHANGED <<gEpIn, gCtx, gCancelCtx, cancelledCtx, gCommDoneChan, closedChans, cur,
                 phase, reading, ctxArg, mrecvs, writers, nonMlsVars>>

\* The endpoint a pass of loop i hands to ReceiveMessage: the global epIn.
LoopEndpoint(i) == gEpIn

\* Loop i: the select on ctx.Done() of the global ctx, then the call
\* ReceiveMessage(epIn, ctx), whose arguments are the globals as they are now.
LoopSelect(i) ==
  /\ mpc[i] = "top"
  /\ IF gCtx \in cancelledCtx
       THEN /\ mpc' = [mpc EXCEPT ![i] = "exit"]
            /\ UNCHANGED <<reading, ctxArg>>
       ELSE /\ mpc' = [mpc EXCEPT ![i] = "recv"]
            /\ reading' = [reading EXCEPT ![i] = LoopEndpoint(i)]
            /\ ctxArg' = [ctxArg EXCEPT ![i] = gCtx]
  /\ UNCHANGED <<gEpIn, gCtx, gCancelCtx, cancelledCtx, gCommDoneChan, closedChans, cur,
                 phase, mrecvs, writers, nonMlsVars>>

\* ReceiveMessage returns to loop i: a message or an I/O error, or an error
\* because the context it was given is cancelledCtx or the endpoint it was given
\* is nil or has been released.
LoopReceive(i) ==
  /\ mpc[i] = "recv"
  /\ \/ /\ mrecvs < MaxRecv
        /\ mrecvs' = mrecvs + 1
        /\ \E ok \in BOOLEAN :
             mpc' = [mpc EXCEPT ![i] = IF ok THEN "onData" ELSE "errCheck"]
     \/ /\ ctxArg[i] \in cancelledCtx \/ reading[i] = 0 \/ reading[i] # gEpIn
        /\ mpc' = [mpc EXCEPT ![i] = "errCheck"]
        /\ UNCHANGED mrecvs
  /\ reading' = [reading EXCEPT ![i] = 0]
  /\ UNCHANGED <<gEpIn, gCtx, gCancelCtx, cancelledCtx, gCommDoneChan, closedChans, cur,
                 phase, ctxArg, writers, nonMlsVars>>

\* Loop i after a failed ReceiveMessage: return ctx.Err() when the global ctx
\* is cancelledCtx, else onError(err) and the next pass.
LoopError(i) ==
  /\ mpc[i] = "errCheck"
  /\ mpc' = [mpc EXCEPT ![i] = IF gCtx \in cancelledCtx THEN "exit" ELSE "top"]
  /\ UNCHANGED <<gEpIn, gCtx, gCancelCtx, cancelledCtx, gCommDoneChan, closedChans, cur,
                 phase, reading, ctxArg, mrecvs, writers, nonMlsVars>>

\* Loop i: onData(received) returns, however late.
LoopData(i) ==
  /\ mpc[i] = "onData"
  /\ mpc' = [mpc EXCEPT ![i] = "top"]
  /\ UNCHANGED <<gEpIn, gCtx, gCancelCtx, cancelledCtx, gCommDoneChan, closedChans, cur,
                 phase, reading, ctxArg, mrecvs, writers, nonMlsVars>>

\* Loop i returns: the deferred function closes the global commDoneChan, if
\* there is one, and sets it to nil.
LoopDefer(i) ==
  /\ mpc[i] = "exit"
  /\ IF gCommDoneChan # 0
       THEN /\ closedChans' = closedChans \cup {gCommDoneChan}
            /\ gCommDoneChan' = 0
       ELSE UNCHANGED <<closedChans, gCommDoneChan>>
  /\ mpc' = [mpc EXCEPT ![i] = "returned"]
  /\ UNCHANGED <<gEpIn, gCtx, gCancelCtx, cancelledCtx, cur, phase, reading, ctxArg,
                 mrecvs, writers, nonMlsVars>>

\* handleDisconnection: link.Close takes connectionMutex and cancels the
\* context: if cancelCtx != nil { cancelCtx(); cancelCtx = nil }.
DetachCloseCancel ==
  /\ phase = "attached"
  /\ IF gCancelCtx
       THEN cancelledCtx' = cancelledCtx \cup {gCtx} /\ gCancelCtx' = FALSE
       ELSE UNCHANGED <<cancelledCtx, gCancelCtx>>
  /\ phase' = "wait"
  /\ UNCHANGED <<gEpIn, gCtx, gCommDoneChan, closedChans, cur, mpc, reading, ctxArg,
                 mrecvs, writers, nonMlsVars>>

\* Close: if commDoneChan != nil, wait until it is closed or 500 ms have passed;
\* commDoneChan = nil.
DetachCloseWait ==
  /\ phase = "wait"
  /\ gCommDoneChan' = 0
  /\ phase' = "clear"
  /\ UNCHANGED <<gEpIn, gCtx, gCancelCtx, cancelledCtx, closedChans, cur, mpc, reading,
                 ctxArg, mrecvs, writers, nonMlsVars>>

\* Close: Done(), epIn = nil, epOut = nil, currentConfig = nil, Unlock.
DetachCloseClear ==
  /\ phase = "clear"
  /\ gEpIn' = 0
  /\ phase' = "stop"
  /\ UNCHANGED <<gCtx, gCancelCtx, cancelledCtx, gCommDoneChan, closedChans, cur, mpc,
                 reading, ctxArg, mrecvs, writers, nonMlsVars>>

\* The loop variables while the sessions' loops are not looked at.
MlsInit ==
  /\ gEpIn = 0
  /\ gCtx = 0
  /\ gCancelCtx = FALSE
  /\ cancelledCtx = {}
  /\ gCommDoneChan = 0
  /\ closedChans = {}
  /\ cur = 0
  /\ phase = "detached"
  /\ mpc = [i \in Sessions |-> "none"]
  /\ reading = [i \in Sessions |-> 0]
  /\ ctxArg = [i \in Sessions |-> 0]
  /\ mrecvs = 0
  /\ writers = 0

\* ======================================================= the frame codec

\* A uint32 as its four bytes, least significant first (the order struc packs
\* and unpacks a `uint32,little` field in).
U32(n) == <<(n % 256), ((n \div 256) % 256), ((n \div 65536) % 256), 0>>

\* a ^ b on bytes.
RECURSIVE XorBits(_, _, _)
XorBits(a, b, n) ==
  IF n = 0 THEN 0
  ELSE (((a % 2) + (b % 2)) % 2) + 2 * XorBits(a \div 2, b \div 2, n - 1)

\* a ^ b on uint32.
Xor32(a, b) == [i \in 1 .. 4 |-> XorBits(a[i], b[i], 8)]

\* 0xffffffff
AllOnes == <<255, 255, 255, 255>>

\* const magicNumber uint32 = 0x55aa55aa
magicNumber == <<170, 85, 170, 85>>

\* var messageTypes: the registry of payload kinds and their type codes.
messageTypes ==
  ("SendFile" :> 153) @@
  ("Open" :> 1) @@
  ("Opened" :> 1) @@
  ("Heartbeat" :> 170) @@
  ("ManufacturerInfo" :> 20) @@
  ("CarPlay" :> 8) @@
  ("SoftwareVersion" :> 204) @@
  ("BluetoothAddress" :> 10) @@
  ("BluetoothPIN" :> 12) @@
  ("Plugged" :> 2) @@
  ("Unplugged" :> 4) @@
  ("VideoData" :> 6) @@
  ("AudioData" :> 7) @@
  ("Touch" :> 5) @@
  ("BluetoothDeviceName" :> 13) @@
  ("WifiDeviceName" :> 14) @@
  ("BluetoothPairedList" :> 18) @@
  ("MultiTouch" :> 23) @@
  ("Phase" :> 3) @@
  ("HiCarLink" :> 24) @@
  ("BoxSettings" :> 25) @@
  ("MediaData" :> 42) @@
  ("LogoTypeMsg" :> 9) @@
  ("DisconnectPhone" :> 15) @@
  ("CloseDongle" :> 21)

\* packHeader: msgTypeN := (msgType ^ 0xffffffff) & 0xffffffff
TypeNOf_Same(msgType) == msgType

TypeNOf(msgType) == Xor32(msgType, AllOnes)

\* struc.Pack of a Header: Magic, Length, Type, TypeN, four little-endian
\* uint32.
PackHeaderBytes(h) == h.Magic \o h.Length \o h.Type \o h.TypeN

\* struc.Unpack of a Header from 16 bytes.
UnpackHeaderBytes(b) ==
  [Magic |-> SubSeq(b, 1, 4), Length |-> SubSeq(b, 5, 8),
   Type |-> SubSeq(b, 9, 12), TypeN |-> SubSeq(b, 13, 16)]

\* packHeader(payload, buffer, data): the header of a registered kind whose
\* packed payload has len(data) = n bytes.
packHeader(kind, n) ==
  LET msgType == U32(messageTypes[kind]) IN
    PackHeaderBytes([Magic |-> magicNumber, Length |-> U32(n), Type |-> msgType,
                     TypeN |-> TypeNOf(msgType)])

\* Unmarshal, Header case: the error it returns.
HeaderError(h) ==
  IF h.Magic # magicNumber THEN "Invalid magic number"
  ELSE IF Xor32(h.Type, AllOnes) # h.TypeN THEN "Invalid type"
  ELSE "nil"

\* GetPayloadByHeader: the kinds a range over messageTypes can return for a
\* header. The iteration order of a Go map is unspecified, so any key whose
\* value is the header's type may be the first one met.
PayloadKinds(h) ==
  LET matching == {k \in DOMAIN messageTypes : U32(messageTypes[k]) = h.Type} IN
    IF matching = {} THEN {"Unknown"} ELSE matching

\* Marshal(payload): the 16 header bytes of the frame; a payload type that is
\* not registered gives the "No message found" error.
Marshal ==
  /\ ppc = "idle"
  /\ \E kind \in DOMAIN messageTypes \cup {"Unknown"}, n \in 0 .. MaxPayload :
       /\ pkind' = kind
       /\ pbody' = n
       /\ IF kind \in DOMAIN messageTypes
            THEN wire' = packHeader(kind, n) /\ ppc' = "marshalled"
            ELSE wire' = << >> /\ ppc' = "marshalFailed"
  /\ UNCHANGED <<hdr, perr, chosen, abody, audioData, trailer, unpacked, nonProVars>>

\* The values of a header field that arrive from the dongle.
WireTypes == {U32(messageTypes[k]) : k \in DOMAIN messageTypes} \cup {U32(119)}

\* ReceiveMessage has read 16 header bytes from the IN endpoint.
ReceiveHeader ==
  /\ ppc = "idle"
  /\ \E magic \in {magicNumber, U32(0), AllOnes}, type \in WireTypes,
        n \in 0 .. MaxPayload :
       \E typeN \in {Xor32(type, AllOnes), type, U32(0)} :
         wire' = PackHeaderBytes([Magic |-> magic, Length |-> U32(n),
                                  Type |-> type, TypeN |-> typeN])
  /\ ppc' = "received"
  /\ UNCHANGED <<pkind, pbody, hdr, perr, chosen, abody, audioData, trailer, unpacked,
                 nonProVars>>

\* Unmarshal(data, &Header{}): unpack, then the magic and the type checks.
UnmarshalHeader ==
  /\ ppc \in {"marshalled", "received"}
  /\ hdr' = UnpackHeaderBytes(wire)
  /\ perr' = HeaderError(hdr')
  /\ ppc' = IF perr' = "nil" THEN "header" ELSE "rejected"
  /\ UNCHANGED <<pkind, pbody, wire, chosen, abody, audioData, trailer, unpacked,
                 nonProVars>>

\* GetPayloadByHeader(hdr) for an accepted header.
GetPayloadByHeader ==
  /\ ppc = "header"
  /\ chosen' \in PayloadKinds(hdr)
  /\ ppc' = "payload"
  /\ UNCHANGED <<pkind, pbody, wire, hdr, perr, abody, audioData, trailer, unpacked,
                 nonProVars>>

\* The trailing lengths of the AudioData bodies the dongle sends.
AudioTails == {0, 1, 2, 4, 5}

\* AudioData bodies: DecodeType, Volume and AudioType (12 bytes) and a tail;
\* also a body cut short, and an empty one.
AudioBodies ==
  {[i \in 1 .. 12 |-> 0] \o t : t \in UNION {[1 .. k -> Bytes] : k \in AudioTails}}
    \cup {[i \in 1 .. n |-> 0] : n \in {0, 11}}

\* ReceiveMessage has read the body of an AudioData frame.
ReceiveAudioData ==
  /\ ppc = "idle"
  /\ abody' \in AudioBodies
  /\ ppc' = "audio"
  /\ UNCHANGED <<pkind, pbody, wire, hdr, perr, chosen, audioData, trailer, unpacked,
                 nonProVars>>

\* binary.Read(..., binary.LittleEndian, &int32): four bytes as an int32.
LittleEndianInt32(b) ==
  b[1] + 256 * b[2] + 65536 * b[3]
    + 16777216 * (IF b[4] >= 128 THEN b[4] - 256 ELSE b[4])

\* Unmarshal, AudioData case: switch len(data) - 12.
AudioVariant_AlwaysData(k) == "data"

AudioVariant(k) == CASE k = 1 -> "command" [] k = 4 -> "volumeDuration" [] OTHER -> "data"

NoAudio == [Command |-> 0, VolumeDuration |-> 0, Data |-> << >>]

\* Unmarshal(data, &AudioData{}): struc.Unpack of the three packed fields
\* unless the body is empty, then the AudioData case. An empty body reaches
\* data[12:] and panics.
UnmarshalAudioData ==
  /\ ppc = "audio"
  /\ IF Len(abody) = 0
       THEN ppc' = "audioPanic" /\ UNCHANGED audioData
       ELSE IF Len(abody) < 12
         THEN ppc' = "audioFailed" /\ UNCHANGED audioData
         ELSE /\ ppc' = "audioDecoded"
              /\ LET variant == AudioVariant(Len(abody) - 12) IN
                   audioData' =
                     CASE variant = "command" ->
                            [NoAudio EXCEPT !.Command = abody[13]]
                       [] variant = "volumeDuration" ->
                            [NoAudio EXCEPT !.VolumeDuration =
                               LittleEndianInt32(SubSeq(abody, 13, Len(abody)))]
                       [] OTHER ->
                            [NoAudio EXCEPT !.Data = SubSeq(abody, 13, Len(abody))]
  /\ UNCHANGED <<pkind, pbody, wire, hdr, perr, chosen, abody, trailer, unpacked,
                 nonProVars>>

\* The frames whose struct keeps its content in one field tagged
\* `struc:"skip"`: MultiTouch.Touches, MediaData.MediaInfo (after the packed
\* Type) and BoxSettings.Settings.
TrailerKinds == {"BoxSettings", "MediaData", "MultiTouch"}

\* TouchItem: X, Y, Action and ID, four bytes each; a field is written as its
\* 32-bit pattern.
TouchItems == {[X |-> x, Y |-> 0, Action |-> 0, ID |-> id] : x, id \in Bytes}

\* The contents the helpers hand over: SendBoxSettings the settings JSON,
\* SendMediaInfo and SendAlbumCover a type and the bytes after it,
\* SendMultiTouch the touches.
Trailers(kind) ==
  LET upTo(S) == UNION {[1 .. n -> S] : n \in 0 .. MaxPayload} IN
    CASE kind = "BoxSettings" -> {[Type |-> 0, Skipped |-> b] : b \in upTo(Bytes)}
      [] kind = "MediaData" ->
           {[Type |-> t, Skipped |-> b] : t \in Bytes, b \in upTo(Bytes)}
      [] kind = "MultiTouch" -> {[Type |-> 0, Skipped |-> t] : t \in upTo(TouchItems)}

\* packPayload: struc.Pack writes the fields that carry a wire tag and leaves
\* out the fields tagged skip; of the three kinds only MediaData has a packed
\* field, its Type.
packPayload(kind, p) == IF kind = "MediaData" THEN U32(p.Type) ELSE << >>

\* The 16 bytes binary.Read takes a TouchItem from, as the sender's
\* binary.Write lays them out.
TouchBytes(t) == U32(t.X) \o U32(t.Y) \o U32(t.Action) \o U32(t.ID)

\* Unmarshal, the BoxSettings, MediaData and MultiTouch cases: the skipped
\* field as it is filled in from the body.
UnmarshalSkipped(kind, raw) ==
  CASE kind = "BoxSettings" -> raw
    [] kind = "MediaData" ->
         IF Len(raw) > 4 THEN SubSeq(raw, 5, Len(raw)) ELSE << >>
    [] kind = "MultiTouch" ->
         [i \in 1 .. (Len(raw) \div 16) |->
            CHOOSE t \in TouchItems :
              TouchBytes(t) = SubSeq(raw, 16 * i - 15, 16 * i)]

\* SendBoxSettings, SendMediaInfo, SendAlbumCover, SendMultiTouch: SendData of
\* the struct, whose frame is packHeader over what packPayload gave.
SendTrailer ==
  /\ ppc = "idle"
  /\ \E kind \in TrailerKinds :
       \E p \in Trailers(kind) :
         LET raw == packPayload(kind, p) IN
           /\ pkind' = kind
           /\ trailer' = p
           /\ pbody' = Len(raw)
           /\ wire' = packHeader(kind, Len(raw)) \o raw
  /\ ppc' = "sent"
  /\ UNCHANGED <<hdr, perr, chosen, abody, audioData, unpacked, nonProVars>>

\* The frame is decoded: the 16 header bytes, then Unmarshal of the body into
\* the payload GetPayloadByHeader made for the header's type.
UnmarshalTrailer ==
  /\ ppc = "sent"
  /\ hdr' = UnpackHeaderBytes(SubSeq(wire, 1, 16))
  /\ perr' = HeaderError(hdr')
  /\ chosen' \in PayloadKinds(hdr')
  /\ unpacked' = UnmarshalSkipped(chosen', SubSeq(wire, 17, Len(wire)))
  /\ ppc' = "unpacked"
  /\ UNCHANGED <<pkind, pbody, wire, abody, audioData, trailer, nonProVars>>

\* The codec variables while no frame is looked at.
ProInit ==
  /\ ppc = "idle"
  /\ pkind = "none"
  /\ pbody = 0
  /\ wire = << >>
  /\ hdr = [Magic |-> U32(0), Length |-> U32(0), Type |-> U32(0), TypeN |-> U32(0)]
  /\ perr = "nil"
  /\ chosen = "none"
  /\ abody = << >>
  /\ audioData = NoAudio
  /\ trailer = [Type |-> 0, Skipped |-> << >>]
  /\ unpacked = << >>

\* ===================================================== ConnectWithTimeout

\* var KnownDevices: the table of dongle ids, in its order.
KnownDevices ==
  << [VendorID |-> 4884, ProductID |-> 5408],
     [VendorID |-> 4884, ProductID |-> 5409] >>

\* Connect: ConnectWithTimeout(5, 3*time.Second).
ConnectRetries == 5

\* What ctx.OpenDeviceWithVIDPID returns for a table entry: no device and no
\* error, an error, or a device.
OpenOutcomes == {"absent", "error", "device"}

\* `if waitCount < 0` after waitCount--: the retry budget is spent.
BudgetSpent_AtZero(w) == w <= 0

BudgetSpent(w) == w < 0

\* Connect, ConnectOnce (ConnectWithTimeout(0, 0)), or a direct call of
\* ConnectWithTimeout(r, delay):
\* waitCount = maxRetries.
ConnectCall ==
  /\ cnpc = "idle"
  /\ \E caller \in {"Connect", "ConnectOnce", "ConnectWithTimeout"} :
       /\ connectCaller' = caller
       /\ maxRetries' \in
            CASE caller = "Connect" -> {ConnectRetries}
              [] caller = "ConnectOnce" -> {0}
              [] OTHER -> 0 .. MaxRetries
  /\ waitCount' = maxRetries'
  /\ cnpc' = "loop"
  /\ UNCHANGED <<passes, sleeps, outcome, tableIdx, openedEntry, nonConVars>>

\* The top of the retry loop: a pass over KnownDevices begins. What each
\* entry's OpenDeviceWithVIDPID will return during this pass is drawn here.
EnumerationPass ==
  /\ cnpc = "loop"
  /\ passes' = passes + 1
  /\ outcome' \in [1 .. Len(KnownDevices) -> OpenOutcomes]
  /\ tableIdx' = 1
  /\ cnpc' = "try"
  /\ UNCHANGED <<connectCaller, maxRetries, waitCount, sleeps, openedEntry, nonConVars>>

\* for _, device := range KnownDevices: OpenDeviceWithVIDPID for the next
\* entry; `continue` on an error, `goto deviceFound` on a device.
TryKnownDevice ==
  /\ cnpc = "try"
  /\ tableIdx <= Len(KnownDevices)
  /\ IF outcome[tableIdx] = "device"
       THEN /\ openedEntry' = tableIdx
            /\ cnpc' = "found"
            /\ UNCHANGED tableIdx
       ELSE /\ tableIdx' = tableIdx + 1
            /\ UNCHANGED <<openedEntry, cnpc>>
  /\ UNCHANGED <<connectCaller, maxRetries, waitCount, passes, sleeps, outcome,
                 nonConVars>>

\* The range ended without a device: waitCount--, and the device-not-found
\* error when it is below zero.
NoDeviceThisPass ==
  /\ cnpc = "try"
  /\ tableIdx > Len(KnownDevices)
  /\ waitCount' = waitCount - 1
  /\ cnpc' = IF BudgetSpent(waitCount') THEN "notFound" ELSE "sleep"
  /\ UNCHANGED <<connectCaller, maxRetries, passes, sleeps, outcome, tableIdx,
                 openedEntry, nonConVars>>

\* time.Sleep(retryDelay), then the next pass.
RetryDelay ==
  /\ cnpc = "sleep"
  /\ sleeps' = sleeps + 1
  /\ cnpc' = "loop"
  /\ UNCHANGED <<connectCaller, maxRetries, waitCount, passes, outcome, tableIdx,
                 openedEntry, nonConVars>>

\* Before ConnectWithTimeout is called.
ConInit ==
  /\ cnpc = "idle"
  /\ connectCaller = "none"
  /\ maxRetries = 0
  /\ waitCount = 0
  /\ passes = 0
  /\ sleeps = 0
  /\ outcome = [i \in 1 .. Len(KnownDevices) |-> "absent"]
  /\ tableIdx = 1
  /\ openedEntry = 0

\* ================================================ StateManager's listeners

\* The tasks that call SetState.
Setters == 1 .. MaxSetters

\* make(chan ConnectionState, 10)
ListenerCapacity == 10

\* slice[i], for a slice [arr, len]: a backing array (its index in arrays)
\* and a length.
Elem(slice, i) == arrays[slice.arr][i]

\* SetState, under sm.mu: oldState := sm.state; sm.state = newState;
\* listeners := sm.listeners. Then `if oldState != newState`.
SetStateLocked(c) ==
  /\ ~smPanic
  /\ stpc[c] = "idle"
  /\ setCalls < MaxSetStates
  /\ setCalls' = setCalls + 1
  /\ \E newState \in ConnectionState :
       /\ smState' = newState
       /\ IF smState # newState
            THEN /\ changeCount' = changeCount + 1
                 /\ notifying' = [notifying EXCEPT ![c] =
                                    [state |-> newState, change |-> changeCount']]
                 /\ snapshot' = [snapshot EXCEPT ![c] = smListeners]
                 /\ rangeIdx' = [rangeIdx EXCEPT ![c] = 1]
                 /\ stpc' = [stpc EXCEPT ![c] = "range"]
            ELSE UNCHANGED <<changeCount, notifying, snapshot, rangeIdx, stpc>>
  /\ UNCHANGED <<smListeners, arrays, chanCount, closedCh, delivered, smPanic,
                 nonObsVars>>

\* `case ch <- newState:` of the select is ready: the channel's buffer has
\* room (no task is modelled as waiting to receive).
CanSend_Always(buf) == TRUE

CanSend(buf) == Len(buf) < ListenerCapacity

\* SetState, after sm.mu.Unlock(): one iteration of `for _, ch := range
\* listeners` with its non-blocking send. The element is read from the
\* backing array now; a send on a closed channel panics; a full channel is
\* skipped.
SetStateNotify(c) ==
  /\ ~smPanic
  /\ stpc[c] = "range"
  /\ rangeIdx[c] <= snapshot[c].len
  /\ LET ch == Elem(snapshot[c], rangeIdx[c]) IN
       IF ch \in closedCh
         THEN smPanic' = TRUE /\ UNCHANGED <<delivered, rangeIdx>>
         ELSE /\ delivered' =
                   IF CanSend(delivered[ch])
                     THEN [delivered EXCEPT ![ch] = Append(@, notifying[c])]
                     ELSE delivered
              /\ rangeIdx' = [rangeIdx EXCEPT ![c] = @ + 1]
              /\ UNCHANGED smPanic
  /\ UNCHANGED <<smState, smListeners, arrays, chanCount, closedCh, changeCount,
                 setCalls, stpc, snapshot, notifying, nonObsVars>>

\* SetState: the range is over; SetState returns.
SetStateReturn(c) ==
  /\ ~smPanic
  /\ stpc[c] = "range"
  /\ rangeIdx[c] > snapshot[c].len
  /\ stpc' = [stpc EXCEPT ![c] = "idle"]
  /\ UNCHANGED <<smState, smListeners, arrays, chanCount, closedCh, delivered,
                 changeCount, setCalls, snapshot, rangeIdx, notifying, smPanic,
                 nonObsVars>>

\* Subscribe, under sm.mu: ch := make(chan ConnectionState, 10);
\* sm.listeners = append(sm.listeners, ch). append writes into the backing
\* array when it has room, else into a copy of twice the capacity.
Subscribe ==
  /\ ~smPanic
  /\ chanCount < MaxListeners
  /\ chanCount' = chanCount + 1
  /\ delivered' = delivered @@ (chanCount' :> << >>)
  /\ LET n == smListeners.len IN
       IF n < Len(arrays[smListeners.arr])
         THEN /\ arrays' = [arrays EXCEPT ![smListeners.arr][n + 1] = chanCount']
              /\ smListeners' = [smListeners EXCEPT !.len = n + 1]
         ELSE /\ arrays' = Append(arrays,
                   [i \in 1 .. (IF n = 0 THEN 1 ELSE 2 * n) |->
                      IF i <= n THEN Elem(smListeners, i)
                      ELSE IF i = n + 1 THEN chanCount' ELSE 0])
              /\ smListeners' = [arr |-> Len(arrays'), len |-> n + 1]
  /\ UNCHANGED <<smState, closedCh, changeCount, setCalls, stpc, snapshot, rangeIdx,
                 notifying, smPanic, nonObsVars>>

\* append(s[:i], s[i+1:]...) on a slice of length n over the array a: the
\* array afterwards.
RemoveAt_Keep(a, n, i) == a

RemoveAt(a, n, i) ==
  [k \in 1 .. Len(a) |-> IF k >= i /\ k < n THEN a[k + 1] ELSE a[k]]

\* Unsubscribe(ch), under sm.mu: the first listener equal to ch is removed
\* by append(s[:i], s[i+1:]...), which moves the elements after i down one
\* place in the same backing array and leaves the last place as it was, and
\* ch is closed; nothing happens when ch is not a listener.
Unsubscribe(ch) ==
  /\ ~smPanic
  /\ ch \in 1 .. chanCount
  /\ \E i \in 1 .. smListeners.len :
       /\ Elem(smListeners, i) = ch
       /\ \A k \in 1 .. i - 1 : Elem(smListeners, k) # ch
       /\ arrays' = [arrays EXCEPT ![smListeners.arr] = RemoveAt(@, smListeners.len, i)]
       /\ smListeners' = [smListeners EXCEPT !.len = @ - 1]
  /\ closedCh' = closedCh \cup {ch}
  /\ UNCHANGED <<smState, chanCount, delivered, changeCount, setCalls, stpc, snapshot,
                 rangeIdx, notifying, smPanic, nonObsVars>>

\* NewStateManager: state StateDisconnected, listeners make([]chan
\* ConnectionState, 0); no SetState call is running.
ObsInit ==
  /\ smState = StateDisconnected
  /\ smListeners = [arr |-> 1, len |-> 0]
  /\ arrays = << << >> >>
  /\ chanCount = 0
  /\ closedCh = {}
  /\ delivered = << >>
  /\ changeCount = 0
  /\ setCalls = 0
  /\ stpc = [c \in Setters |-> "idle"]
  /\ snapshot = [c \in Setters |-> [arr |-> 1, len |-> 0]]
  /\ rangeIdx = [c \in Setters |-> 1]
  /\ notifying = [c \in Setters |-> [state |-> StateDisconnected, change |-> 0]]
  /\ smPanic = FALSE

\* ============================================== HotplugManager Start/Stop

\* `hm.ctx != nil` in Start and `hm.ctx == nil` in Stop: the manager is
\* started.
Started_Always(ctx) == TRUE

Started(ctx) == ctx

\* Start: with hm.ctx set return nil; else hm.ctx = gousb.NewContext() and
\* go hm.monitorDevices().
HotplugStart ==
  /\ ~hmPanic
  /\ stopPc = "idle"
  /\ hmCalls < MaxHotplugCalls
  /\ hmCalls' = hmCalls + 1
  /\ IF Started(hmCtx)
       THEN UNCHANGED <<hmCtx, pollPc, pollWas>>
       ELSE hmCtx' = TRUE /\ pollPc' = "select" /\ pollWas' = FALSE
  /\ UNCHANGED <<stopClosed, doneClosed, stopPc, hmPanic, hmEvents, nonHotVars>>

\* Stop: with hm.ctx nil return; else close(hm.stopChan), which panics when
\* the channel is closed already, and wait on hm.doneChan.
HotplugStop ==
  /\ ~hmPanic
  /\ stopPc = "idle"
  /\ hmCalls < MaxHotplugCalls
  /\ hmCalls' = hmCalls + 1
  /\ IF ~Started(hmCtx)
       THEN UNCHANGED <<stopClosed, stopPc, hmPanic>>
       ELSE IF stopClosed
         THEN hmPanic' = TRUE /\ UNCHANGED <<stopClosed, stopPc>>
         ELSE stopClosed' = TRUE /\ stopPc' = "wait" /\ UNCHANGED hmPanic
  /\ UNCHANGED <<hmCtx, doneClosed, pollPc, pollWas, hmEvents, nonHotVars>>

\* Stop: <-hm.doneChan has returned; hm.ctx.Close(), hm.ctx = nil; Stop
\* returns.
HotplugStopDone ==
  /\ ~hmPanic
  /\ stopPc = "wait"
  /\ doneClosed
  /\ hmCtx' = FALSE
  /\ stopPc' = "idle"
  /\ UNCHANGED <<stopClosed, doneClosed, pollPc, pollWas, hmCalls, hmPanic, hmEvents,
                 nonHotVars>>

\* monitorDevices: the select takes `case <-hm.stopChan` and returns; the
\* deferred close(hm.doneChan) panics when the channel is closed already.
PollerStopped ==
  /\ ~hmPanic
  /\ pollPc = "select"
  /\ stopClosed
  /\ pollPc' = "exited"
  /\ IF doneClosed
       THEN hmPanic' = TRUE /\ UNCHANGED doneClosed
       ELSE doneClosed' = TRUE /\ UNCHANGED hmPanic
  /\ UNCHANGED <<hmCtx, stopClosed, pollWas, stopPc, hmCalls, hmEvents, nonHotVars>>

\* monitorDevices: the select takes `case <-ticker.C` (it may, also when
\* stopChan is closed) and reads hm.ctx under hm.mu; with a nil ctx it
\* returns, as above.
PollerTicks ==
  /\ ~hmPanic
  /\ pollPc = "select"
  /\ IF hmCtx
       THEN pollPc' = "handle" /\ UNCHANGED <<doneClosed, hmPanic>>
       ELSE /\ pollPc' = "exited"
            /\ IF doneClosed
                 THEN hmPanic' = TRUE /\ UNCHANGED doneClosed
                 ELSE doneClosed' = TRUE /\ UNCHANGED hmPanic
  /\ UNCHANGED <<hmCtx, stopClosed, pollWas, stopPc, hmCalls, hmEvents, nonHotVars>>

\* monitorDevices: isDevicePresent(ctx), handleAttach or handleDetach on a
\* change, wasConnected = isConnected.
PollerHandles ==
  /\ ~hmPanic
  /\ pollPc = "handle"
  /\ \E isConnected \in BOOLEAN :
       /\ isConnected # pollWas => hmEvents < MaxHotplugEvents
       /\ hmEvents' = IF isConnected # pollWas THEN hmEvents + 1 ELSE hmEvents
       /\ pollWas' = isConnected
  /\ pollPc' = "select"
  /\ UNCHANGED <<hmCtx, stopClosed, doneClosed, stopPc, hmCalls, hmPanic, nonHotVars>>

\* NewHotplugManager: both channels made, no ctx, no poller.
HotInit ==
  /\ hmCtx = FALSE
  /\ stopClosed = FALSE
  /\ doneClosed = FALSE
  /\ pollPc = "none"
  /\ pollWas = FALSE
  /\ stopPc = "idle"
  /\ hmCalls = 0
  /\ hmEvents = 0
  /\ hmPanic = FALSE

Init ==
  SvcInit /\ LnkIdle /\ VidInit /\ SesInit /\ CdcIdle /\ MlsInit /\ ProInit /\ ConInit
    /\ HotInit
    /\ ObsInit

Next ==
  \/ Plug
  \/ Unplug
  \/ PollerTick
  \/ TriggerConnectionAttempt
  \/ \E p \in Handlers : HandleAttachCheck(p)
  \/ \E p \in Handlers : HandleAttachStart(p)
  \/ HandleDetach
  \/ \E i \in ConnIds : ConnOpen(i)
  \/ \E i \in ConnIds : ConnInit(i)
  \/ \E i \in ConnIds : ConnStart(i)
  \/ \E i \in ConnIds : ConnReady(i)
  \/ \E i \in ConnIds : ConnReturn(i)
  \/ \E i \in ConnIds : HsConfig(i)
  \/ \E i \in ConnIds : HsCheckedSend(i)
  \/ \E i \in ConnIds : HsRest(i)
  \/ \E i \in ConnIds : startHeartbeat(i)
  \/ \E j \in DiscIds : DiscClose(j)
  \/ \E j \in DiscIds : stopHeartbeat(j)
  \/ \E j \in DiscIds : stopHeartbeatClear(j)
  \/ \E j \in DiscIds : DiscRelease(j)
  \/ \E j \in DiscIds : DiscReturn(j)

Spec == Init /\ [][Next]_vars

InitLink ==
  SvcIdle /\ LnkInit /\ VidInit /\ SesInit /\ CdcIdle /\ MlsInit /\ ProInit /\ ConInit
    /\ HotInit
    /\ ObsInit

NextLink ==
  \/ HsStoreConfig
  \/ HsSend
  \/ HsAndroidCheck
  \/ HsSleep
  \/ HsStartHeartbeat
  \/ HeartbeatTick
  \/ HelperSend
  \/ HandlePhonePlugged
  \/ \E s \in Senders : SendData(s)
  \/ \E s \in Senders : SendMessageLock(s)
  \/ \E s \in Senders : SendMessageHeaderDone(s)
  \/ \E s \in Senders : SendMessageBodyDone(s)

SpecLink == InitLink /\ [][NextLink]_vars

InitVideo ==
  SvcIdle /\ LnkIdle /\ VidInit /\ SesInit /\ CdcIdle /\ MlsInit /\ ProInit /\ ConInit
    /\ HotInit
    /\ ObsInit

NextVideo ==
  \/ VideoData
  \/ DrainOldFrames
  \/ SendLatestFrame
  \/ \E c \in Consumers : ConsumerReceive(c)
  \/ \E c \in Consumers : ConsumerWrite(c)
  \/ DetachDrainTest
  \/ DetachDrainReceive

SpecVideo == InitVideo /\ [][NextVideo]_vars

InitSession ==
  SvcIdle /\ LnkIdle /\ VidInit /\ SesInit /\ CdcIdle /\ MlsInit /\ ProInit /\ ConInit
    /\ HotInit
    /\ ObsInit

NextSession ==
  \/ HandleConnectionCall
  \/ NewContext
  \/ OpenDeviceWithVIDPID
  \/ DefaultInterface
  \/ Endpoints
  \/ InitWithEndpoints
  \/ GoCommunicate
  \/ GoStartWithConfig
  \/ StartFFmpegConverter
  \/ HandleConnectionReturn
  \/ CommunicateEntry
  \/ CommunicateSelect
  \/ ReceiveMessage
  \/ CommunicateError
  \/ CommunicateData
  \/ CommunicateDeferTest
  \/ CommunicateDeferClose
  \/ StartWithConfigStore
  \/ StartWithConfigChecked
  \/ StartWithConfigRest
  \/ StartHeartbeatTest
  \/ StartHeartbeatTicker
  \/ StartHeartbeatChan
  \/ StartHeartbeatGo
  \/ HeartbeatFires
  \/ HeartbeatSendData
  \/ HeartbeatWrite
  \/ \E k \in Closers :
       \/ CloseCall(k)
       \/ CloseLock(k)
       \/ CloseCancel(k)
       \/ CloseWait(k)
       \/ StopHeartbeatTest(k)
       \/ StopHeartbeatSend(k)
       \/ HeartbeatStop(k)
       \/ StopHeartbeatNil(k)
       \/ CloseDone(k)
       \/ CloseClear(k)

SpecSession == InitSession /\ [][NextSession]_vars

InitCodec ==
  SvcIdle /\ LnkIdle /\ VidInit /\ SesInit /\ CdcInit /\ MlsInit /\ ProInit /\ ConInit
    /\ HotInit
    /\ ObsInit

NextCodec ==
  \/ UnmarshalVideoData
  \/ OnVideoData
  \/ ReuseReceiveBuffer
  \/ ConsumerReadFrame

SpecCodec == InitCodec /\ [][NextCodec]_vars


InitLoops ==
  SvcIdle /\ LnkIdle /\ VidInit /\ SesInit /\ CdcIdle /\ MlsInit /\ ProInit /\ ConInit
    /\ HotInit
    /\ ObsInit

NextLoops ==
  \/ NextInitWithEndpoints
  \/ NextGoCommunicate
  \/ NextStartFFmpegConverter
  \/ \E i \in Sessions : LoopEntry(i)
  \/ \E i \in Sessions : LoopSelect(i)
  \/ \E i \in Sessions : LoopReceive(i)
  \/ \E i \in Sessions : LoopError(i)
  \/ \E i \in Sessions : LoopData(i)
  \/ \E i \in Sessions : LoopDefer(i)
  \/ DetachCloseCancel
  \/ DetachCloseWait
  \/ DetachCloseClear
  \/ DetachStopVideoPipeline

SpecLoops == InitLoops /\ [][NextLoops]_vars

InitProtocol ==
  SvcIdle /\ LnkIdle /\ VidInit /\ SesInit /\ CdcIdle /\ MlsInit /\ ProInit /\ ConInit
    /\ HotInit
    /\ ObsInit

NextProtocol ==
  \/ Marshal
  \/ ReceiveHeader
  \/ UnmarshalHeader
  \/ GetPayloadByHeader
  \/ ReceiveAudioData
  \/ UnmarshalAudioData
  \/ SendTrailer
  \/ UnmarshalTrailer

SpecProtocol == InitProtocol /\ [][NextProtocol]_vars

InitConnect ==
  SvcIdle /\ LnkIdle /\ VidInit /\ SesInit /\ CdcIdle /\ MlsInit /\ ProInit /\ ConInit
    /\ HotInit
    /\ ObsInit

NextConnect ==
  \/ ConnectCall
  \/ EnumerationPass
  \/ TryKnownDevice
  \/ NoDeviceThisPass
  \/ RetryDelay

SpecConnect == InitConnect /\ [][NextConnect]_vars

InitObservers ==
  SvcIdle /\ LnkIdle /\ VidInit /\ SesInit /\ CdcIdle /\ MlsInit /\ ProInit /\ ConInit
    /\ HotInit
    /\ ObsInit

NextObservers ==
  \/ \E c \in Setters : SetStateLocked(c)
  \/ \E c \in Setters : SetStateNotify(c)
  \/ \E c \in Setters : SetStateReturn(c)
  \/ Subscribe
  \/ \E ch \in 1 .. MaxListeners : Unsubscribe(ch)

SpecObservers == InitObservers /\ [][NextObservers]_vars

\* A StateManager whose first listener has never read its channel: it was
\* subscribed, and the state then went through ListenerCapacity - 1 changes
\* (Connecting, Connected, Disconnected, ...), made one after the other.
NotifyInit ==
  LET n == ListenerCapacity - 1
      cycle == <<StateConnecting, StateConnected, StateDisconnected>>
      change(i) == [state |-> cycle[((i - 1) % 3) + 1], change |-> i]
  IN
    /\ smState = change(n).state
    /\ smListeners = [arr |-> 2, len |-> 1]
    /\ arrays = << << >>, <<1>> >>
    /\ chanCount = 1
    /\ closedCh = {}
    /\ delivered = << [i \in 1 .. n |-> change(i)] >>
    /\ changeCount = n
    /\ setCalls = 0
    /\ stpc = [c \in Setters |-> "idle"]
    /\ snapshot = [c \in Setters |-> [arr |-> 1, len |-> 0]]
    /\ rangeIdx = [c \in Setters |-> 1]
    /\ notifying = [c \in Setters |-> [state |-> StateDisconnected, change |-> 0]]
    /\ smPanic = FALSE

InitNotify ==
  SvcIdle /\ LnkIdle /\ VidInit /\ SesInit /\ CdcIdle /\ MlsInit /\ ProInit /\ ConInit
    /\ HotInit
    /\ NotifyInit

NextNotify ==
  \/ \E c \in Setters : SetStateLocked(c)
  \/ \E c \in Setters : SetStateNotify(c)
  \/ \E c \in Setters : SetStateReturn(c)
  \/ Subscribe

SpecNotify == InitNotify /\ [][NextNotify]_vars

InitHotplug ==
  SvcIdle /\ LnkIdle /\ VidInit /\ SesInit /\ CdcIdle /\ MlsInit /\ ProInit /\ ConInit
    /\ ObsInit /\ HotInit

NextHotplug ==
  \/ HotplugStart
  \/ HotplugStop
  \/ HotplugStopDone
  \/ PollerStopped
  \/ PollerTicks
  \/ PollerHandles

SpecHotplug == InitHotplug /\ [][NextHotplug]_vars

\* ------------------------------------------------- the claims, under Spec

\* The transitions of the connection state that the data model lists.
ListedTransitions ==
  { <<StateDisconnected, StateConnecting>>, <<StateConnecting, StateConnected>>,
    <<StateConnecting, StateDisconnected>>, <<StateConnected, StateDisconnected>> }

\* Connect callbacks that have not returned yet.
RunningConnects == {i \in ConnIds : conn[i] \in {"open", "init", "start", "warm"}}

\* C1: every change of the connection state is one of the listed transitions
\* (Disconnected->Connecting, Connecting->Connected, Connecting->Disconnected,
\* Connected->Disconnected).
C1_OnlyListedTransitions ==
  [][state' # state => <<state, state'>> \in ListedTransitions]_vars

\* C2: the heartbeat task runs iff the state is Connected; the part the claim
\* singles out: no heartbeat task is running while the state is Disconnected.
C2_NoHeartbeatWhileDisconnected ==
  state = StateDisconnected => hbTasks = 0

\* C7: once the detach task has stored Disconnected, the state remains
\* Disconnected until the next attach edge is observed, whatever a connect
\* callback still in flight does.
C7_DisconnectedUntilNextAttach ==
  settled => state = StateDisconnected

\* C8: the connect callback is invoked at most once per attach of the dongle
\* and no two connect callbacks ever run at the same time.
C8_OneConnectPerAttach ==
  /\ connCalls <= attachEdges
  /\ Cardinality(RunningConnects) <= 1

\* C9: the step that starts a connect callback stores Connecting, and the step
\* that ends its task stores Connected after success and Disconnected after
\* an error; the state is never Connecting once no connect task is left.
C9_AttachOutcome ==
  /\ []((\A i \in ConnIds : conn[i] = "free") => state # StateConnecting)
  /\ [][\A i \in ConnIds :
          /\ (conn[i] = "free" /\ conn'[i] # "free") => state' = StateConnecting
          /\ (conn[i] = "retOk" /\ conn'[i] = "free") => state' = StateConnected
          /\ (conn[i] = "retErr" /\ conn'[i] = "free") => state' = StateDisconnected]_vars

\* C9's case: a connect callback has returned success and its task has stored
\* Connected.
C9_Witness ==
  /\ connCalls >= 1
  /\ \A i \in ConnIds : conn[i] = "free"
  /\ state = StateConnected

\* C10: a handler that reads Connecting or Connected on an attach, or
\* Disconnected on a detach, returns without starting a callback and without
\* changing the state.
C10_IgnoredEdgesChangeNothing ==
  [][/\ \A p \in Handlers :
          (hpc[p] = "attach" /\ hpc'[p] # "attach" /\ state # StateDisconnected)
            => /\ hpc'[p] \in {"wait", "done"}
               /\ UNCHANGED <<state, conn, disc, hs, connCalls>>
     /\ (hpc["poller"] = "detach" /\ hpc'["poller"] # "detach"
           /\ state = StateDisconnected)
            => UNCHANGED <<state, conn, disc, hs, connCalls>>]_vars

\* C10's case: an attach was ignored and a detach was ignored.
C10_Witness == ignored = {"attach", "detach"}

\* No handler is inside handleAttach or handleDetach and no callback,
\* handshake or cleanup task is left: only the poller's next tick can act.
Quiescent ==
  /\ hpc["poller"] = "wait"
  /\ hpc["trigger"] = "done"
  /\ \A i \in ConnIds : conn[i] = "free" /\ hs[i] = "free"
  /\ \A j \in DiscIds : disc[j] = "free"

\* C11: a dongle plugged in again, after a connection attempt was made and
\* its removal was handled, is never left alone: once the poller has seen the
\* attach edge the monitor does not come to rest before a connect callback
\* was started for it.
C11_ReplugReconnects ==
  ~(replug = "seen" /\ Quiescent)

\* C12: while no session is open (before the first InitWithEndpoints, and
\* from the moment Close has cleared the endpoints until the next
\* InitWithEndpoints) currentConfig is nil, wherever the StartWithConfig task
\* of the closed session stands.
C12_ConfigNilWhileClosed ==
  ~epOpen => ~currentConfig

\* C40: at most one heartbeat task exists at any time, across consecutive
\* sessions and for any interleaving of their handshake tasks with Close.
C40_AtMostOneHeartbeat ==
  hbTasks <= 1

\* --------------------------------------------- the claims, under SpecLink

\* C3: at most one write is in flight on the OUT endpoint, and no write of
\* another message comes between the header write and the body write of a
\* message.
C3_WritesSerialized ==
  /\ Cardinality(inFlight) <= 1
  /\ ~torn

\* C3's case: a sender is writing a body while another one waits for
\* writeMutex.
C3_Witness ==
  /\ spc["helper"] = "body"
  /\ spc["heartbeat"] = "lock"

IsPrefix(a, b) == Len(a) <= Len(b) /\ SubSeq(b, 1, Len(a)) = a

\* The handshake as the session orchestrator's design lists it.
ListedHandshake(wifi, mic, audio, android) ==
  << Msg("SendFile", "/tmp/screen_dpi"), Msg("Open", ""),
     Msg("SendFile", "/tmp/night_mode"), Msg("SendFile", "/tmp/hand_drive_mode"),
     Msg("SendFile", "/tmp/charge_mode"), Msg("SendFile", "/etc/box_name"),
     Msg("CarPlay", wifi), Msg("BoxSettings", ""), Msg("CarPlay", "SupportWifi"),
     Msg("CarPlay", mic), Msg("CarPlay", audio) >>
  \o (IF android THEN << Msg("SendFile", "/etc/android_work_mode") >> ELSE << >>)
  \o << Msg("CarPlay", "WifiConnect") >>

\* C6: StartWithConfig issues its sends in the listed order, with
\* SendFile(/etc/android_work_mode) exactly when it found
\* config.AndroidWorkMode set; when it returns nil it has issued all of them,
\* and the heartbeat task exists only after WifiConnect was sent, so a
\* Heartbeat is written only after every handshake message.
C6_HandshakeOrder ==
  \E wifi \in {"Wifi24g", "Wifi5g"}, mic \in {"CarMicrophone", "BoxMicrophone"},
     audio \in {"AudioTransferOn", "AudioTransferOff"} :
    LET listed == ListedHandshake(wifi, mic, audio, hsAndroid) IN
      /\ IsPrefix(sent, listed)
      /\ hsResult = "nil" => sent = listed
      /\ spc["heartbeat"] # "off" => sent = listed /\ spc["handshake"] = "idle"
      /\ ~config.AndroidWorkMode => ~hsAndroid

\* C6's case: a handshake with the optional android_work_mode step has
\* returned nil and the heartbeat task is writing a Heartbeat.
C6_Witness ==
  /\ hsResult = "nil"
  /\ hsAndroid
  /\ Len(sent) = 13
  /\ spc["heartbeat"] = "hdr"

\* C13: a session emits SendFile(/etc/android_work_mode) at most once: the
\* one HandlePhonePlugged sends sets AndroidWorkMode, after which no further
\* SendFile of that kind goes out, whatever Plugged messages follow.
C13_OneAndroidModeFile ==
  androidFiles["plugged"] + androidFiles["handshake"] <= 1

\* The writes a call of SendData that returned nil must have made.
WritesOf(w) ==
  IF w.body THEN <<[part |-> "header", ok |-> TRUE], [part |-> "body", ok |-> TRUE]>>
            ELSE <<[part |-> "header", ok |-> TRUE]>>

\* C23: a send that succeeded made exactly one write of the header followed
\* by exactly one write of the body when the frame has a body, and the header
\* write alone when it has none; a send whose header write failed wrote nothing
\* after it and returned the error; and a send never makes more than these two
\* writes, the header first.
C23_HeaderThenBody ==
  \A s \in Senders :
    LET w == wsend[s] IN
      /\ w.result = "nil" => w.writes = WritesOf(w)
      /\ (Len(w.writes) >= 1 /\ ~w.writes[1].ok) =>
           (Len(w.writes) = 1 /\ w.result = "err")
      /\ Len(w.writes) <= 2
      /\ Len(w.writes) >= 1 => w.writes[1].part = "header"
      /\ Len(w.writes) = 2 => (w.body /\ w.writes[2].part = "body")

\* A send with a body and a send without one have both returned nil, and a
\* send has failed at its header write.
C23_Witness ==
  /\ \E s \in Senders : wsend[s].result = "nil" /\ wsend[s].body
  /\ \E s \in Senders : wsend[s].result = "nil" /\ ~wsend[s].body
  /\ \E s \in Senders :
       /\ wsend[s].result = "err"
       /\ wsend[s].writes = <<[part |-> "header", ok |-> FALSE]>>

\* C24: a handshake message is sent only after the previous one's send
\* succeeded: once a SendData of StartWithConfig has returned an error,
\* StartWithConfig has returned that error, sends nothing further and the
\* heartbeat task is not started.
C24_FailedSendStopsHandshake ==
  wsend["handshake"].result = "err" =>
    /\ hsPos = "returned"
    /\ hsResult = "err"
    /\ spc["heartbeat"] = "off"

\* -------------------------------------------- the claims, under SpecVideo

\* C4: a read that follows N >= 1 insertions with no read in between returns
\* the frame inserted last and leaves the buffer empty.
C4_ReadReturnsLatest ==
  lastRead.after >= 1 => lastRead.frame = lastRead.latest /\ lastRead.left = 0

\* C4's case: two or more frames were inserted, then one was read.
C4_Witness ==
  /\ lastRead.after >= 2
  /\ lastRead.frame = lastRead.latest

\* C5: with the one producer, an insertion never blocks (its next step can
\* always be taken), never drops the new frame, and the buffer never holds
\* more than one frame.
C5_NoBlockNoDropNoGrowth ==
  /\ ~dropped
  /\ Len(h264Frames) <= 1
  /\ vpc = "drain" => ENABLED DrainOldFrames
  /\ vpc = "push" => ENABLED SendLatestFrame

\* C5's case: frames keep being inserted while every consumer is stalled in
\* its write.
C5_Witness ==
  /\ \A c \in Consumers : cpc[c] = "write"
  /\ inserted >= 2
  /\ Len(h264Frames) = 1

\* C19: handleDisconnection always terminates, also with a consumer receiving
\* from the same buffer. Its drain receives with a blocking `<-h264Frames`
\* after the test len(h264Frames) > 0; it terminates only if that receive never
\* finds the buffer empty, since after a detach no further frame arrives to
\* complete it.
C19_DrainNeverBlocked == ~(dpc = "receive" /\ Len(h264Frames) = 0)

\* ------------------------------------------ the claims, under SpecSession

\* The positions of Communicate inside its for loop.
InLoop == {"top", "recv", "errCheck", "onData"}

\* C14: in the dispatch loop, a failed receive with the context not cancelled
\* calls the error handler exactly once and goes on to the next pass; with the
\* context cancelled the loop returns the cancellation error and the error
\* handler is not called; the error handler is called at no other place, and
\* the loop, once entered, is left only with the context cancelled.
C14_LoopErrorHandling ==
  [][/\ (lpc = "errCheck" /\ lpc' # lpc /\ ~ctxErr) =>
          /\ lpc' = "top"
          /\ errCalls' = errCalls + 1
     /\ (lpc = "errCheck" /\ lpc' # lpc /\ ctxErr) =>
          /\ lpc' = "deferCheck"
          /\ loopResult' = "Canceled"
          /\ errCalls' = errCalls
     /\ (lpc \in InLoop /\ lpc' \notin InLoop) =>
          /\ ctxErr
          /\ loopResult' = "Canceled"
     /\ errCalls' # errCalls => lpc = "errCheck" /\ ~ctxErr]_vars

\* A loop that handled a failed receive, went on, and later returned the
\* cancellation error.
C14_Witness ==
  /\ errCalls >= 1
  /\ lpc = "returned"
  /\ loopResult = "Canceled"

\* C15: Close always terminates. A Close that is inside stopHeartbeat sending on
\* a nil heartbeatDone can take no further step, so termination requires that
\* no caller of Close is ever at that send.
C15_CloseNeverBlocked == \A k \in Closers : clo[k] # "hbStuck"

\* C16: teardown stops the heartbeat task before it releases the transport:
\* once the session's transport has been released, the heartbeat goroutine is
\* not running (it was never started, or it has returned), and no Heartbeat
\* write was issued after the release.
C16_HeartbeatStoppedBeforeRelease ==
  doneCalls > 0 => (hbpc \in {"none", "exited"} /\ ~lateWrite)

\* The statements of Close between taking and releasing connectionMutex.
InClose == {"cancel", "wait", "stopHb", "hbEval", "hbSend", "hbStuck", "hbNil",
            "done", "clear"}

\* The next statement of caller k of Close.
CloseStep(k) ==
  \/ CloseCancel(k)
  \/ CloseWait(k)
  \/ StopHeartbeatTest(k)
  \/ StopHeartbeatSend(k)
  \/ HeartbeatStop(k)
  \/ StopHeartbeatNil(k)
  \/ CloseDone(k)
  \/ CloseClear(k)

AcquiredAt(r) == CASE r = "ctx" -> 1 [] r = "dev" -> 2 [] r = "intf" -> 3

\* C18: the transport's cleanup releases in reverse order of acquisition: of
\* two resources released, the one acquired later was released first (the
\* interface claim before the device, the device before the USB context).
C18_ReleasedInReverseOrder ==
  \A i, j \in 1..Len(freed) :
     i < j => AcquiredAt(freed[i]) > AcquiredAt(freed[j])

\* C28: while no endpoints are open (before InitWithEndpoints, or after
\* Close has cleared them) a SendData call returns the not-connected error
\* without going on to an endpoint write, and a Communicate call returns the
\* not-connected error without having called onData or onError.
C28_NotConnected ==
  /\ sendNil # "write"
  /\ commNil =>
       /\ lpc = "returned"
       /\ loopResult = "NotConnected"
       /\ recvs = 0
       /\ errCalls = 0

\* After Close, the session's Communicate and its StartWithConfig were
\* scheduled: both found no endpoints.
C28_Witness ==
  /\ commNil
  /\ lpc = "returned"
  /\ sendNil = "NotConnected"
  /\ hspc = "returned"
  /\ doneCalls > 0

\* C37: no write goes to the OUT endpoint after Close has released the
\* transport, and a SendData that found the endpoint set does not go on to
\* its write with the endpoint released or cleared meanwhile.
C37_NoWriteAfterRelease ==
  /\ ~lateWrite
  /\ hbpc = "write" => (doneCalls = 0 /\ epIn)

\* C38: when the connect callback has returned an error (the state is then
\* stored as Disconnected) and nobody has called Close, nothing of that
\* attempt is left: the endpoints are cleared, the transport is released,
\* and no dispatch loop, handshake or heartbeat task is running.
C38_FailedAttemptLeavesNothing ==
  (tpc = "failed" /\ \A k \in Closers : clo[k] = "idle") =>
    /\ ~epIn
    /\ ~Done
    /\ closeTask = << >> \/ freed # << >>
    /\ lpc \in {"none", "returned"}
    /\ hspc \in {"none", "returned"}
    /\ hbpc \in {"none", "exited"}

\* What ConnectWithTimeout holds when it is at a step: the USB context when
\* it looks for the device, the device too when it claims the interface,
\* the interface claim too when it looks up the endpoints.
HeldAt(step) ==
  CASE step = "opendev" -> {"ctx"}
    [] step = "claim" -> {"ctx", "dev"}
    [] step = "endpoints" -> {"ctx", "dev", "intf"}

\* C39: when the transport open fails at a step, each resource acquired up
\* to that step is released, once, by the time the error is returned; no
\* resource is ever released twice; and after a successful open nothing is
\* released before the returned cleanup function has been called.
C39_OpenFailureReleasesAll ==
  /\ [](\A i, j \in 1 .. Len(freed) : freed[i] = freed[j] => i = j)
  /\ []((closeTask # << >> /\ doneCalls = 0) => freed = << >>)
  /\ [][(tpc \in {"opendev", "claim", "endpoints"} /\ tpc' = "failed") =>
          /\ {freed'[i] : i \in 1 .. Len(freed')} = HeldAt(tpc)
          /\ Len(freed') = Cardinality(HeldAt(tpc))
          /\ cleanTask' = << >>
          /\ closeTask' = << >>]_vars

\* The endpoint lookup failed: the context, the device and the interface
\* claim were released, and no cleanup function was returned.
C39_Witness ==
  /\ tpc = "failed"
  /\ Len(freed) = 3
  /\ closeTask = << >>
  /\ doneCalls = 0

\* -------------------------------------------- the claims, under SpecCodec

\* The H.264 bytes of the body that was decoded: its bytes [20..].
FrameBytes == SubSeq(body, HeaderSize + 1, Len(body))

\* C20: the data of a decoded VideoData is a fresh copy of the body's bytes
\* [20..]: whatever is written to the receive buffer after the decoding or
\* after the frame was enqueued, the decoded data, the enqueued slice and what
\* the consumer reads remain those bytes.
C20_FrameIsOwnedCopy ==
  /\ cdpc \in {"decoded", "skipped", "queued", "consumed"} =>
       Deref(payload.Data) = FrameBytes
  /\ cdpc \in {"queued", "consumed"} => Deref(frameRef) = FrameBytes
  /\ cdpc = "consumed" => consumed = FrameBytes

\* A consumer read a frame whose bytes in the receive buffer had been
\* overwritten by then.
C20_Witness ==
  /\ cdpc = "consumed"
  /\ reused
  /\ Len(consumed) > 0
  /\ SubSeq(rxBuf, HeaderSize + 1, Len(rxBuf)) # consumed

\* -------------------------------------------- the claims, under SpecLoops

\* C21: at most one dispatch loop reads the IN endpoint at any time, and the
\* loop of a session reads only that session's endpoint and is governed only
\* by that session's context: no pending ReceiveMessage of loop i was given
\* the endpoint or the context of another session.
C21_LoopReadsOwnSession ==
  /\ \A i \in Sessions :
       mpc[i] = "recv" => (reading[i] \in {0, i} /\ ctxArg[i] = i)
  /\ \A i, j \in Sessions :
       (mpc[i] = "recv" /\ mpc[j] = "recv" /\ reading[i] # 0
          /\ reading[i] = reading[j]) => i = j

\* C22: at any time at most one consumer task takes frames out of the H.264
\* buffer, however many sessions have been connected and disconnected: at
\* most one writeH264ToFFmpeg task is ranging over h264Frames.
C22_OneWriterTask == writers <= 1

\* ----------------------------------------- the claims, under SpecProtocol

\* C25: the header Marshal produces has the magic 0x55AA55AA, the length of
\* the body, the registry code of the payload kind, and type_neg = type XOR
\* 0xFFFFFFFF; the header decoder accepts a header exactly when its magic is
\* the constant and type XOR type_neg is 0xFFFFFFFF, returns the invalid-magic
\* error when the magic differs, and the invalid-type error when the magic is
\* right and the type pair is not complementary.
C25_TypeNegInvariant ==
  LET h == UnpackHeaderBytes(wire) IN
    /\ (ppc \in {"marshalled", "header", "payload"} /\ pkind # "none") =>
         /\ Len(wire) = 16
         /\ h.Magic = magicNumber
         /\ h.Length = U32(pbody)
         /\ h.Type = U32(messageTypes[pkind])
         /\ Xor32(h.Type, h.TypeN) = AllOnes
    /\ ppc \in {"header", "payload"} =>
         /\ hdr = h
         /\ perr = "nil"
         /\ hdr.Magic = magicNumber
         /\ Xor32(hdr.Type, hdr.TypeN) = AllOnes
    /\ ppc = "rejected" =>
         /\ pkind = "none"
         /\ hdr = h
         /\ \/ perr = "Invalid magic number" /\ hdr.Magic # magicNumber
            \/ /\ perr = "Invalid type"
               /\ hdr.Magic = magicNumber
               /\ Xor32(hdr.Type, hdr.TypeN) # AllOnes

\* A header that Marshal produced for a payload with a body was decoded and
\* accepted.
C25_Witness ==
  /\ ppc = "header"
  /\ pkind = "Heartbeat"
  /\ pbody > 0
  /\ perr = "nil"

\* C26: the payload kind of an inbound frame is a function of its type code
\* alone; a header of type 0x01 is decoded as Opened, never as Open.
C26_Type1IsOpened ==
  (ppc = "payload" /\ hdr.Type = U32(1)) => chosen = "Opened"

\* C27: an AudioData body of 12 + k bytes decodes, for k = 1, to command =
\* body[12] with no data; for k = 4, to volumeDuration = the little-endian
\* int32 of body[12..16] with no data; for any other k >= 0, to data =
\* body[12..] with command and volumeDuration zero.
C27_AudioTail ==
  (ppc = "audioDecoded" /\ Len(abody) >= 12) =>
    LET k == Len(abody) - 12 IN
      /\ k = 1 =>
           /\ audioData.Command = abody[13]
           /\ audioData.Data = << >>
           /\ audioData.VolumeDuration = 0
      /\ k = 4 =>
           /\ audioData.VolumeDuration =
                abody[13] + 256 * abody[14] + 65536 * abody[15]
                  + 16777216 * abody[16]
           /\ audioData.Data = << >>
           /\ audioData.Command = 0
      /\ k \notin {1, 4} =>
           /\ audioData.Data = SubSeq(abody, 13, Len(abody))
           /\ Len(audioData.Data) = k
           /\ audioData.Command = 0
           /\ audioData.VolumeDuration = 0

\* A four-byte tail with a non-zero high byte was decoded as a volume
\* duration.
C27_Witness ==
  /\ ppc = "audioDecoded"
  /\ Len(abody) = 16
  /\ abody[16] # 0
  /\ audioData.VolumeDuration >= 16777216

\* C34: a BoxSettings, MediaData or MultiTouch frame carries the content of
\* its struct in its body: decoding the frame gives the Settings, MediaInfo
\* or Touches that were sent, and the body of a MultiTouch with N touches is
\* N * 16 bytes long.
C34_TrailerRoundTrip ==
  /\ ppc = "unpacked" => unpacked = trailer.Skipped
  /\ (ppc \in {"sent", "unpacked"} /\ pkind = "MultiTouch") =>
       pbody = 16 * Len(trailer.Skipped)

\* ------------------------------------------- the claims, under SpecConnect

\* C29: the transport open terminates. With a retry budget of r it begins at
\* most r + 1 passes over the device table and sleeps at most r delays, one
\* between two consecutive passes; when no pass finds a device it fails with
\* the device-not-found error after exactly r + 1 passes and r delays.
\* Connect has r = 5 and ConnectOnce r = 0. The entry opened is the first
\* entry of the table, in table order, for which a device was returned.
C29_RetryBudget ==
  /\ connectCaller = "Connect" => maxRetries = 5
  /\ connectCaller = "ConnectOnce" => maxRetries = 0
  /\ cnpc # "idle" => (passes <= maxRetries + 1 /\ sleeps <= maxRetries)
  /\ cnpc \in {"try", "sleep", "found", "notFound"} => sleeps = passes - 1
  /\ cnpc = "loop" => sleeps = passes
  /\ cnpc = "notFound" => (passes = maxRetries + 1 /\ sleeps = maxRetries)
  /\ cnpc = "found" =>
       /\ openedEntry \in 1 .. Len(KnownDevices)
       /\ outcome[openedEntry] = "device"
       /\ \A i \in 1 .. openedEntry - 1 : outcome[i] # "device"

\* The cold-start Connect gave up after six passes and five delays.
C29_Witness ==
  /\ cnpc = "notFound"
  /\ connectCaller = "Connect"
  /\ passes = 6
  /\ sleeps = 5

\* ----------------------------------------- the claims, under SpecObservers

\* C30: SetState notifies the listeners only when the new state differs from
\* the old one, and a listener receives a given state change at most once: no
\* channel holds a notification while no SetState call has changed the state,
\* and no channel holds two notifications of the same change.
C30_NotifiedAtMostOnce ==
  \A ch \in 1 .. chanCount :
    /\ changeCount = 0 => delivered[ch] = << >>
    /\ \A i, j \in 1 .. Len(delivered[ch]) :
         delivered[ch][i].change = delivered[ch][j].change => i = j

\* How often ch is among sm.listeners.
TimesListed(ch) ==
  Cardinality({i \in 1 .. smListeners.len : Elem(smListeners, i) = ch})

\* C32: once Unsubscribe(ch) has returned, ch is not in the listener list and
\* is closed; every channel that was subscribed and not unsubscribed is in
\* the list, once; a channel is closed only by the call that removes it, so
\* it is closed once; and nothing is sent into a closed channel.
C32_UnsubscribeRemovesAndCloses ==
  /\ [](\A ch \in 1 .. chanCount :
          TimesListed(ch) = IF ch \in closedCh THEN 0 ELSE 1)
  /\ [][/\ \A ch \in closedCh : ch \in closedCh' /\ delivered'[ch] = delivered[ch]
        /\ (closedCh' # closedCh) =>
             /\ Cardinality(closedCh') = Cardinality(closedCh) + 1
             /\ smListeners'.len = smListeners.len - 1]_vars

\* The first of two listeners was unsubscribed; the second was notified of a
\* later change.
C32_Witness ==
  /\ closedCh = {1}
  /\ chanCount = 2
  /\ TimesListed(2) = 1
  /\ Len(delivered[1]) = 0
  /\ Len(delivered[2]) > 0
  /\ ~smPanic

\* C35: a SetState that runs together with an Unsubscribe never sends into a
\* closed channel, and its notification loop never meets the same listener
\* twice: no send has panicked, and the listeners a call in its loop still
\* has to read are pairwise distinct and open.
C35_SetStateWithUnsubscribe ==
  /\ ~smPanic
  /\ \A c \in Setters : stpc[c] = "range" =>
       \A i, j \in rangeIdx[c] .. snapshot[c].len :
         /\ Elem(snapshot[c], i) \notin closedCh
         /\ Elem(snapshot[c], i) = Elem(snapshot[c], j) => i = j

\* C36: notifications reach a listener in the order in which the state
\* changes were applied: the changes in a channel's buffer are in increasing
\* order, and once every SetState call has returned, the last notification
\* in the buffer of a listener that was never unsubscribed, when no listener
\* was unsubscribed meanwhile, is the stored state.
C36_NotifiedInOrder ==
  (closedCh = {} /\ ~smPanic) =>
    \A ch \in 1 .. chanCount :
      LET d == delivered[ch] IN
        /\ \A i, j \in 1 .. Len(d) : i < j => d[i].change < d[j].change
        /\ ((\A c \in Setters : stpc[c] = "idle") /\ d # << >>) =>
             d[Len(d)].state = smState

\* -------------------------------------------- the claims, under SpecNotify

\* C31: SetState never blocks on its listeners. A SetState call inside its
\* notification loop can always take its next step; a listener whose buffer
\* is full is skipped, so no buffer grows beyond its capacity; and every
\* listener the loop has passed either holds the notification of that call
\* or has a full buffer, whatever happened at the listeners before it. The
\* state is stored before any listener is looked at.
C31_NeverBlocksOnListeners ==
  /\ \A ch \in 1 .. chanCount : Len(delivered[ch]) <= 10
  /\ \A c \in Setters :
       stpc[c] = "range" =>
         /\ ENABLED (SetStateNotify(c) \/ SetStateReturn(c))
         /\ \A i \in 1 .. rangeIdx[c] - 1 :
              LET ch == Elem(snapshot[c], i) IN
                \/ \E k \in 1 .. Len(delivered[ch]) : delivered[ch][k] = notifying[c]
                \/ Len(delivered[ch]) = 10
  /\ (\A c \in Setters : stpc[c] = "idle") =>
       \/ changeCount = 9
       \/ \E c \in Setters : notifying[c].change = changeCount
                               /\ notifying[c].state = smState

\* A SetState call has passed a first listener whose buffer was full, without
\* a notification for it, and has notified the second.
C31_Witness ==
  \E c \in Setters :
    /\ stpc[c] = "range"
    /\ rangeIdx[c] = 3
    /\ Len(delivered[1]) = 10
    /\ \A k \in 1 .. 10 : delivered[1][k] # notifying[c]
    /\ \E k \in 1 .. Len(delivered[2]) : delivered[2][k] = notifying[c]
    /\ smState = notifying[c].state

\* ------------------------------------------- the claims, under SpecHotplug

\* C33: Stop returns only once the poller has exited: past its wait on
\* doneChan the poller is gone, and the poller handles an attach or a detach
\* only while the manager is started and no Stop has got past that wait. A
\* Stop while the manager is not started (before Start, or after an earlier
\* Stop has completed) changes nothing.
C33_StopWaitsForPoller ==
  /\ [](~hmPanic =>
          /\ (stopPc = "wait" /\ doneClosed) => pollPc = "exited"
          /\ (stopPc = "idle" /\ ~hmCtx) => pollPc \in {"none", "exited"}
          /\ pollPc = "handle" => hmCtx)
  /\ [][(hmCalls' # hmCalls /\ ~hmCtx /\ ~hmCtx') =>
          UNCHANGED <<stopClosed, doneClosed, pollPc, pollWas, stopPc, hmEvents,
                      hmPanic>>]_vars
  /\ [][hmEvents' # hmEvents => (hmCtx /\ ~(stopPc = "wait" /\ doneClosed))]_vars

\* Start, a poller pass, a completed Stop, and a second Stop.
C33_Witness ==
  /\ hmCalls = 3
  /\ stopPc = "idle"
  /\ ~hmCtx
  /\ stopClosed
  /\ doneClosed
  /\ pollPc = "exited"
  /\ hmEvents = 1
  /\ ~hmPanic

====
